---- MODULE Spec2Model ----
(***************************************************************************)
(* Model of network-reach/reach.py: the analysis of an AWS source's        *)
(* security groups, route table and NACL against a destination address.    *)
(*                                                                         *)
(* Python values are modelled as follows.                                  *)
(*   - a dict is a record; a key that may be absent is a field that may be *)
(*     absent ("k" \in DOMAIN r);                                          *)
(*   - a list is a sequence; None is <<>> and a present value x is <<x>>;  *)
(*   - an identifier string whose prefix the code tests is a sequence of   *)
(*     characters; other strings are TLA+ strings;                         *)
(*   - an IPv4 address string is its four octets <<a,b,c,d>>; a string     *)
(*     that ipaddress cannot parse is BadAddress;                          *)
(*   - a CIDR string is [addr |-> octets, prefixlen |-> n];                *)
(*   - a call returns [exc |-> "", value |-> v, out |-> lines printed], or *)
(*     raises: [exc |-> "ValueError" | "AssertionError" | ..., ...].        *)
(***************************************************************************)
EXTENDS Integers, Sequences, FiniteSets, TLC

VARIABLES
    pc,       \* position of the run: "call"/"return" of a function under
              \* analysis, or the step of main
    call,     \* the function entered last and its arguments
    aws,      \* the answers AWS gave to the describe_* calls of that function
    ret,      \* what that function returned (or raised)
    main,     \* the local variables of main(), and what main itself printed
    reports   \* the report_* calls of the run so far, in order, with results

vars == <<pc, call, aws, ret, main, reports>>

----------------------------------------------------------------------------
(* Bounds of the model *)

MaxRoutes == 3        \* routes given to find_route_matches
MaxTableRoutes == 2   \* routes of the route table given to report_route_table
MaxPerms == 3         \* permissions given to find_security_group_matches
MaxRanges == 3        \* IpRanges of one permission
MaxGroups == 2        \* security groups of the source
MaxEntries == 3       \* entries of a NACL
MaxVifs == 3          \* Direct Connect virtual interfaces
MaxPeers == 3         \* BGP peers of one virtual interface

----------------------------------------------------------------------------
(* Python helpers *)

None == <<>>
Some(x) == <<x>>

SeqsUpTo(S, n) == UNION {[1..k -> S] : k \in 0..n}

Min(a, b) == IF a < b THEN a ELSE b
Max(a, b) == IF a > b THEN a ELSE b

Pow2(n) == CASE n = 0 -> 1 [] n = 1 -> 2 [] n = 2 -> 4 [] n = 3 -> 8 [] n = 4 -> 16
             [] n = 5 -> 32 [] n = 6 -> 64 [] n = 7 -> 128 [] OTHER -> 256

\* s.startswith(p), s and p sequences of characters
StartsWith(s, p) == Len(s) >= Len(p) /\ SubSeq(s, 1, Len(p)) = p

Ok(v, out) == [exc |-> "", value |-> v, out |-> out]
Raise(e, out) == [exc |-> e, value |-> None, out |-> out]

----------------------------------------------------------------------------
(* ipaddress *)

\* "256.0.0.1"
BadAddress == <<256, 0, 0, 1>>

\* the empty string, where an address is expected
NoAddress == <<>>

\* ipaddress.ip_address(s) succeeds
IsAddress(s) == Len(s) = 4 /\ \A i \in 1..4 : s[i] \in 0..255

\* number of bits of octet i that a prefix of length p covers
PrefixBits(p, i) == Max(0, Min(8, p - 8 * (i - 1)))

\* ipaddress.ip_network(c) succeeds (strict: no host bits set)
IsNetwork(c) ==
    /\ IsAddress(c.addr)
    /\ c.prefixlen \in 0..32
    /\ \A i \in 1..4 : c.addr[i] % Pow2(8 - PrefixBits(c.prefixlen, i)) = 0

\* ip in net, both parsed
InNetwork(ip, net) ==
    \A i \in 1..4 :
        ip[i] \div Pow2(8 - PrefixBits(net.prefixlen, i))
            = net.addr[i] \div Pow2(8 - PrefixBits(net.prefixlen, i))

ALL_IPV4 == [addr |-> <<0, 0, 0, 0>>, prefixlen |-> 0]

----------------------------------------------------------------------------
(* find_route_matches *)

\* match = {} with nothing printed; "raised" and "out" carry the exception
\* and the lines printed out of the loop
NoMatch == [prefixlen |-> -1, route |-> None, raised |-> FALSE, out |-> <<>>]

\* one iteration of the loop over routes; match is the best match so far
find_route_step_ge(r, dest_ip, verbose, match) ==
    LET seen == IF verbose THEN Append(match.out, "Considering route") ELSE match.out
    IN  IF "DestinationCidrBlock" \notin DOMAIN r THEN [match EXCEPT !.out = seen]
        ELSE IF ~IsNetwork(r.DestinationCidrBlock)
             THEN [match EXCEPT !.raised = TRUE, !.out = seen]
        ELSE IF InNetwork(dest_ip, r.DestinationCidrBlock)
             THEN LET matched == IF verbose THEN Append(seen, "Route matched") ELSE seen
                  IN  IF r.DestinationCidrBlock.prefixlen >= match.prefixlen
                      THEN [prefixlen |-> r.DestinationCidrBlock.prefixlen,
                            route |-> Some(r), raised |-> FALSE, out |-> matched]
                      ELSE [match EXCEPT !.out = matched]
             ELSE [match EXCEPT !.out = seen]

find_route_step_first(r, dest_ip, verbose, match) ==
    LET seen == IF verbose THEN Append(match.out, "Considering route") ELSE match.out
    IN  IF "DestinationCidrBlock" \notin DOMAIN r THEN [match EXCEPT !.out = seen]
        ELSE IF ~IsNetwork(r.DestinationCidrBlock)
             THEN [match EXCEPT !.raised = TRUE, !.out = seen]
        ELSE IF InNetwork(dest_ip, r.DestinationCidrBlock)
             THEN LET matched == IF verbose THEN Append(seen, "Route matched") ELSE seen
                  IN  IF match.route = None
                      THEN [prefixlen |-> r.DestinationCidrBlock.prefixlen,
                            route |-> Some(r), raised |-> FALSE, out |-> matched]
                      ELSE [match EXCEPT !.out = matched]
             ELSE [match EXCEPT !.out = seen]

\* the iteration with a selection that depends on verbose: when the lines
\* are printed the first matching route is kept
find_route_step_verbose_first(r, dest_ip, verbose, match) ==
    LET seen == IF verbose THEN Append(match.out, "Considering route") ELSE match.out
    IN  IF "DestinationCidrBlock" \notin DOMAIN r THEN [match EXCEPT !.out = seen]
        ELSE IF ~IsNetwork(r.DestinationCidrBlock)
             THEN [match EXCEPT !.raised = TRUE, !.out = seen]
        ELSE IF InNetwork(dest_ip, r.DestinationCidrBlock)
             THEN LET matched == IF verbose THEN Append(seen, "Route matched") ELSE seen
                  IN  IF IF verbose THEN match.route = None
                         ELSE r.DestinationCidrBlock.prefixlen > match.prefixlen
                      THEN [prefixlen |-> r.DestinationCidrBlock.prefixlen,
                            route |-> Some(r), raised |-> FALSE, out |-> matched]
                      ELSE [match EXCEPT !.out = matched]
             ELSE [match EXCEPT !.out = seen]

find_route_step(r, dest_ip, verbose, match) ==
    LET seen == IF verbose THEN Append(match.out, "Considering route") ELSE match.out
    IN  IF "DestinationCidrBlock" \notin DOMAIN r THEN [match EXCEPT !.out = seen]
        ELSE IF ~IsNetwork(r.DestinationCidrBlock)
             THEN [match EXCEPT !.raised = TRUE, !.out = seen]
        ELSE IF InNetwork(dest_ip, r.DestinationCidrBlock)
             THEN LET matched == IF verbose THEN Append(seen, "Route matched") ELSE seen
                  IN  IF r.DestinationCidrBlock.prefixlen > match.prefixlen
                      THEN [prefixlen |-> r.DestinationCidrBlock.prefixlen,
                            route |-> Some(r), raised |-> FALSE, out |-> matched]
                      ELSE [match EXCEPT !.out = matched]
             ELSE [match EXCEPT !.out = seen]

RECURSIVE find_route_loop(_, _, _, _, _)
find_route_loop(routes, dest_ip, verbose, i, match) ==
    IF i > Len(routes) \/ match.raised THEN match
    ELSE find_route_loop(routes, dest_ip, verbose, i + 1,
                         find_route_step(routes[i], dest_ip, verbose, match))

find_route_matches(routes, dest_ip_str, verbose) ==
    IF ~IsAddress(dest_ip_str) THEN Raise("ValueError", <<>>)
    ELSE LET m == find_route_loop(routes, dest_ip_str, verbose, 1, NoMatch)
         IN  IF m.raised THEN Raise("ValueError", m.out)
             ELSE Ok(m.route, m.out)

----------------------------------------------------------------------------
(* find_nacl_rule_matches *)

NoRules == [inbound_rules |-> <<>>, outbound_rules |-> <<>>, exc |-> ""]

\* one iteration of the loop over the entries of a NACL
find_nacl_step_swapped(e, dest_ip, acc) ==
    IF "CidrBlock" \notin DOMAIN e THEN [acc EXCEPT !.exc = "KeyError"]
    ELSE IF ~IsNetwork(e.CidrBlock) THEN [acc EXCEPT !.exc = "ValueError"]
    ELSE IF InNetwork(dest_ip, e.CidrBlock)
         THEN IF e.Egress
              THEN [acc EXCEPT !.inbound_rules = Append(@, e)]
              ELSE [acc EXCEPT !.outbound_rules = Append(@, e)]
         ELSE acc

find_nacl_step(e, dest_ip, acc) ==
    IF "CidrBlock" \notin DOMAIN e THEN [acc EXCEPT !.exc = "KeyError"]
    ELSE IF ~IsNetwork(e.CidrBlock) THEN [acc EXCEPT !.exc = "ValueError"]
    ELSE IF InNetwork(dest_ip, e.CidrBlock)
         THEN IF e.Egress
              THEN [acc EXCEPT !.outbound_rules = Append(@, e)]
              ELSE [acc EXCEPT !.inbound_rules = Append(@, e)]
         ELSE acc

RECURSIVE find_nacl_loop(_, _, _, _)
find_nacl_loop(nacl_entries, dest_ip, i, acc) ==
    IF i > Len(nacl_entries) \/ acc.exc # "" THEN acc
    ELSE find_nacl_loop(nacl_entries, dest_ip, i + 1,
                        find_nacl_step(nacl_entries[i], dest_ip, acc))

\* value: <<inbound_rules, outbound_rules>>
find_nacl_rule_matches(nacl_entries, dest_ip_str) ==
    IF ~IsAddress(dest_ip_str) THEN Raise("ValueError", <<>>)
    ELSE LET acc == find_nacl_loop(nacl_entries, dest_ip_str, 1, NoRules)
         IN  IF acc.exc # "" THEN Raise(acc.exc, <<>>)
             ELSE Ok(<<acc.inbound_rules, acc.outbound_rules>>, <<>>)

----------------------------------------------------------------------------
(* find_security_group_matches *)

\* the loop over p['IpRanges'] from range i on: "match" (matched_p = p and
\* break), "none" (the loop ends with matched_p None) or "raise"
RECURSIVE ip_ranges_loop(_, _, _)
ip_ranges_loop(ranges, dest_ip, i) ==
    IF i > Len(ranges) THEN "none"
    ELSE IF ranges[i].CidrIp = ALL_IPV4 THEN "match"
    ELSE IF ~IsNetwork(ranges[i].CidrIp) THEN "raise"
    ELSE IF InNetwork(dest_ip, ranges[i].CidrIp) THEN "match"
    ELSE ip_ranges_loop(ranges, dest_ip, i + 1)

NoPermissions == [matches |-> <<>>, raised |-> FALSE, out |-> <<>>]

\* one iteration of the loop, had an IPv6 range or a prefix list been taken
\* for a match
find_security_group_step_ipv6_matches(p, dest_ip, acc) ==
    LET ranges == ip_ranges_loop(p.IpRanges, dest_ip, 1)
        out6 == IF Len(p.Ipv6Ranges) > 0
                THEN Append(acc.out, "WARNING. Ignoring IPv6 rules in Security Group.")
                ELSE acc.out
        outpl == IF Len(p.PrefixListIds) > 0
                 THEN Append(out6, "WARNING. Ignoring Perfix List rules in Security Group.")
                 ELSE out6
    IN  IF ranges = "raise" THEN [acc EXCEPT !.raised = TRUE]
        ELSE IF ranges = "match" \/ Len(p.UserIdGroupPairs) > 0
                \/ Len(p.Ipv6Ranges) > 0 \/ Len(p.PrefixListIds) > 0
             THEN [acc EXCEPT !.matches = Append(@, p), !.out = outpl]
             ELSE [acc EXCEPT !.out = outpl]

\* one iteration of the loop over permissions
find_security_group_step_ranges_only(p, dest_ip, acc) ==
    LET ranges == ip_ranges_loop(p.IpRanges, dest_ip, 1)
        out6 == IF Len(p.Ipv6Ranges) > 0
                THEN Append(acc.out, "WARNING. Ignoring IPv6 rules in Security Group.")
                ELSE acc.out
        outpl == IF Len(p.PrefixListIds) > 0
                 THEN Append(out6, "WARNING. Ignoring Perfix List rules in Security Group.")
                 ELSE out6
    IN  IF ranges = "raise" THEN [acc EXCEPT !.raised = TRUE]
        ELSE IF ranges = "match"
             THEN [acc EXCEPT !.matches = Append(@, p), !.out = outpl]
             ELSE [acc EXCEPT !.out = outpl]

find_security_group_step(p, dest_ip, acc) ==
    LET ranges == ip_ranges_loop(p.IpRanges, dest_ip, 1)
        out6 == IF Len(p.Ipv6Ranges) > 0
                THEN Append(acc.out, "WARNING. Ignoring IPv6 rules in Security Group.")
                ELSE acc.out
        outpl == IF Len(p.PrefixListIds) > 0
                 THEN Append(out6, "WARNING. Ignoring Perfix List rules in Security Group.")
                 ELSE out6
    IN  IF ranges = "raise" THEN [acc EXCEPT !.raised = TRUE]
        ELSE IF ranges = "match" \/ Len(p.UserIdGroupPairs) > 0
             THEN [acc EXCEPT !.matches = Append(@, p), !.out = outpl]
             ELSE [acc EXCEPT !.out = outpl]

RECURSIVE find_security_group_loop(_, _, _, _)
find_security_group_loop(permissions, dest_ip, i, acc) ==
    IF i > Len(permissions) \/ acc.raised THEN acc
    ELSE find_security_group_loop(permissions, dest_ip, i + 1,
                                  find_security_group_step(permissions[i], dest_ip, acc))

\* value: matches
find_security_group_matches(permissions, dest_ip_str) ==
    IF ~IsAddress(dest_ip_str) THEN Raise("ValueError", <<>>)
    ELSE LET acc == find_security_group_loop(permissions, dest_ip_str, 1, NoPermissions)
         IN  IF acc.raised THEN Raise("ValueError", acc.out)
             ELSE Ok(acc.matches, acc.out)

----------------------------------------------------------------------------
(* get_security_groups, report_security_groups *)

NoGroupMatches == [ingress_sg_matches |-> <<>>, egress_sg_matches |-> <<>>,
                   exc |-> "", out |-> <<>>]

\* one iteration of the loop over the security groups of the source
get_security_groups_step_ingress_twice(security_group, dest_ip_address, acc) ==
    LET ingress == find_security_group_matches(security_group.IpPermissions, dest_ip_address)
    IN  IF ingress.exc # ""
        THEN [acc EXCEPT !.exc = ingress.exc, !.out = @ \o ingress.out]
        ELSE [ingress_sg_matches |-> acc.ingress_sg_matches \o ingress.value,
              egress_sg_matches |-> acc.egress_sg_matches \o ingress.value,
              exc |-> "", out |-> acc.out \o ingress.out \o ingress.out]

get_security_groups_step(security_group, dest_ip_address, acc) ==
    LET ingress == find_security_group_matches(security_group.IpPermissions, dest_ip_address)
        egress == find_security_group_matches(security_group.IpPermissionsEgress, dest_ip_address)
    IN  IF ingress.exc # ""
        THEN [acc EXCEPT !.exc = ingress.exc, !.out = @ \o ingress.out]
        ELSE IF egress.exc # ""
        THEN [acc EXCEPT !.exc = egress.exc, !.out = @ \o ingress.out \o egress.out]
        ELSE [ingress_sg_matches |-> acc.ingress_sg_matches \o ingress.value,
              egress_sg_matches |-> acc.egress_sg_matches \o egress.value,
              exc |-> "", out |-> acc.out \o ingress.out \o egress.out]

RECURSIVE get_security_groups_loop(_, _, _, _)
get_security_groups_loop(source_security_groups, dest_ip_address, i, acc) ==
    IF i > Len(source_security_groups) \/ acc.exc # "" THEN acc
    ELSE get_security_groups_loop(source_security_groups, dest_ip_address, i + 1,
            get_security_groups_step(source_security_groups[i], dest_ip_address, acc))

\* SecurityGroups: the answer of describe_security_groups(GroupIds=sg_group_ids)
\* value: <<ingress_sg_matches, egress_sg_matches>>
get_security_groups(SecurityGroups, sg_group_ids, dest_ip_address, verbose) ==
    IF Len(SecurityGroups) # Len(sg_group_ids) THEN Raise("AssertionError", <<>>)
    ELSE LET acc == get_security_groups_loop(SecurityGroups, dest_ip_address, 1, NoGroupMatches)
         IN  IF acc.exc # "" THEN Raise(acc.exc, acc.out)
             ELSE Ok(<<acc.ingress_sg_matches, acc.egress_sg_matches>>, acc.out)

NoIngress == "NETWORK CONNECTIVITY ERROR. No ingress is allowed by source Security Groups"
NoEgress == "NETWORK CONNECTIVITY ERROR. No egress is allowed by source Security Groups"

\* the two checks of report_security_groups on the matches found
security_groups_verdict_and(ingress_sg_matches, egress_sg_matches, out) ==
    IF Len(ingress_sg_matches) = 0 /\ Len(egress_sg_matches) = 0
    THEN Ok(TRUE, out \o <<NoIngress, NoEgress>>)
    ELSE Ok(FALSE, out)

security_groups_verdict(ingress_sg_matches, egress_sg_matches, out) ==
    LET out_in == IF Len(ingress_sg_matches) = 0 THEN Append(out, NoIngress) ELSE out
        out_eg == IF Len(egress_sg_matches) = 0 THEN Append(out_in, NoEgress) ELSE out_in
    IN  Ok(Len(ingress_sg_matches) = 0 \/ Len(egress_sg_matches) = 0, out_eg)

\* value: network_problem_exists
report_security_groups(SecurityGroups, source_security_group_ids, source_ip_address, dest_ip_address, verbose) ==
    LET got == get_security_groups(SecurityGroups, source_security_group_ids,
                                   dest_ip_address, verbose)
    IN  IF got.exc # "" THEN got
        ELSE security_groups_verdict(got.value[1], got.value[2], got.out)

----------------------------------------------------------------------------
(* report_nacl *)

NoInbound == "NETWORK CONNECTIVITY ERROR. No relevant inbound rules for NACL."
NoOutbound == "NETWORK CONNECTIVITY ERROR. No relevant outbound rules for NACL."

\* the two checks of report_nacl on the rules found
nacl_verdict_inbound_only(inbound_rules, outbound_rules) ==
    IF Len(inbound_rules) = 0 THEN Ok(TRUE, <<NoInbound>>) ELSE Ok(FALSE, <<>>)

nacl_verdict(inbound_rules, outbound_rules) ==
    LET out_in == IF Len(inbound_rules) = 0 THEN <<NoInbound>> ELSE <<>>
        out_ob == IF Len(outbound_rules) = 0 THEN Append(out_in, NoOutbound) ELSE out_in
    IN  Ok(Len(inbound_rules) = 0 \/ Len(outbound_rules) = 0, out_ob)

\* value: network_problem_exists
report_nacl(source_nacl, source_ip_address, dest_ip_address, verbose) ==
    LET found == find_nacl_rule_matches(source_nacl.Entries, dest_ip_address)
    IN  IF found.exc # "" THEN found
        ELSE nacl_verdict(found.value[1], found.value[2])

----------------------------------------------------------------------------
(* report_dc_virtual_interfaces *)

NoVifs == "NETWORK CONNECTIVITY ERROR. No DC Virtual Interfaces present."
VifNotAvailable == "NETWORK CONNECTIVITY ERROR. DC Virtual Interface is not in 'available' state:"
BgpPeerIssue == "NETWORK CONNECTIVITY ERROR. DC Virtual Interface BGP Peer issue:"
BgpPeerOk == "DC Virtual Interface BGP peer appears OK."
VifOk == "DC Virtual Interface appears OK."
CheckingVifs == "Checking Direct Connect Virtual Interfaces:"

\* the loop over i['bgpPeers'] from peer k on; acc: [problem, out]
RECURSIVE bgp_peers_loop(_, _, _)
bgp_peers_loop(bgpPeers, k, acc) ==
    IF k > Len(bgpPeers) THEN acc
    ELSE IF bgpPeers[k].bgpStatus # "up" \/ bgpPeers[k].bgpPeerState # "available"
         THEN bgp_peers_loop(bgpPeers, k + 1,
                             [problem |-> TRUE, out |-> Append(acc.out, BgpPeerIssue)])
         ELSE bgp_peers_loop(bgpPeers, k + 1,
                             [acc EXCEPT !.out = Append(@, BgpPeerOk)])

\* one iteration of the loop over the interfaces;
\* acc: [network_problem_exists, out]
dc_vif_step_stop_at_first(i, acc) ==
    IF acc.network_problem_exists THEN acc
    ELSE LET state_bad == i.virtualInterfaceState # "available"
             peers == bgp_peers_loop(i.bgpPeers, 1,
                         [problem |-> state_bad,
                          out |-> IF state_bad THEN Append(acc.out, VifNotAvailable)
                                  ELSE acc.out])
         IN  [network_problem_exists |-> peers.problem,
              out |-> IF peers.problem THEN peers.out ELSE Append(peers.out, VifOk)]

dc_vif_step(i, acc) ==
    LET state_bad == i.virtualInterfaceState # "available"
        peers == bgp_peers_loop(i.bgpPeers, 1,
                    [problem |-> state_bad,
                     out |-> IF state_bad THEN Append(acc.out, VifNotAvailable)
                             ELSE acc.out])
    IN  [network_problem_exists |-> acc.network_problem_exists \/ peers.problem,
         out |-> IF peers.problem THEN peers.out ELSE Append(peers.out, VifOk)]

RECURSIVE dc_vifs_loop(_, _, _)
dc_vifs_loop(dc_vifs, n, acc) ==
    IF n > Len(dc_vifs) THEN acc
    ELSE dc_vifs_loop(dc_vifs, n + 1, dc_vif_step(dc_vifs[n], acc))

\* value: network_problem_exists
report_dc_virtual_interfaces(dc_vifs, verbose) ==
    IF Len(dc_vifs) = 0 THEN Ok(TRUE, <<CheckingVifs, NoVifs>>)
    ELSE LET acc == dc_vifs_loop(dc_vifs, 1,
                        [network_problem_exists |-> FALSE, out |-> <<CheckingVifs>>])
         IN  Ok(acc.network_problem_exists, acc.out)

----------------------------------------------------------------------------
(* report_route_table *)

\* A report that also logs the AWS calls it made: api is the sequence of
\* the describe_* operations called.
Report(exc, value, out, api) == [exc |-> exc, value |-> value, out |-> out, api |-> api]

NoRoute == "NETWORK CONNECTIVITY ERROR. There is no route"
IgwNotAttached == "NETWORK CONNECTIVITY ERROR. Internet Gateway is NOT attached."
IgwOk == "Internet Gateway appears OK."
VgwNotAvailable == "NETWORK CONNECTIVITY ERROR. Virtual Gateway is NOT available."
VgwNotAttached == "NETWORK CONNECTIVITY ERROR. Virtual Gateway is NOT attached."
OtherGateway == "WARNING. Some other type of gateway is NOT being analyzed."
NatNotAvailable == "NETWORK CONNECTIVITY ERROR. NAT Gateway not available"
PeeringNotActive == "NETWORK CONNECTIVITY ERROR. VPC Peering Connection is not active"
UnknownRouteType == "ERROR. Unknown route type:"
DestinationPeeringInfo == "Destination peering info:"

\* get_dc_virtual_interface: the interfaces of the account that are bound to
\* the gateway
get_dc_virtual_interface(virtualInterfaces, virtual_gateway_id) ==
    SelectSeq(virtualInterfaces, LAMBDA i : i.virtualGatewayId = virtual_gateway_id)

\* the branch r['GatewayId'].startswith('igw-'), had it counted a gateway
\* without exactly one attachment as a problem
report_internet_gateway_unattached_is_problem(ec2_client, r, out) ==
    LET api == <<"describe_internet_gateways">>
        o == out \o <<"Via gateway", "Internet Gateway:">>
    IN  IF Len(ec2_client.InternetGateways) # 1 THEN Report("AssertionError", None, o, api)
        ELSE IF Len(ec2_client.InternetGateways[1].Attachments) # 1
             THEN Report("", TRUE, Append(o, IgwNotAttached), api)
        ELSE IF ec2_client.InternetGateways[1].Attachments[1].State # "available"
             THEN Report("", TRUE, Append(o, IgwNotAttached), api)
             ELSE Report("", FALSE, Append(o, IgwOk), api)

\* the branch r['GatewayId'].startswith('igw-')
report_internet_gateway(ec2_client, r, out) ==
    LET api == <<"describe_internet_gateways">>
        o == out \o <<"Via gateway", "Internet Gateway:">>
    IN  IF Len(ec2_client.InternetGateways) # 1 THEN Report("AssertionError", None, o, api)
        ELSE IF Len(ec2_client.InternetGateways[1].Attachments) # 1
             THEN Report("AssertionError", None, o, api)
        ELSE IF ec2_client.InternetGateways[1].Attachments[1].State # "available"
             THEN Report("", TRUE, Append(o, IgwNotAttached), api)
             ELSE Report("", FALSE, Append(o, IgwOk), api)

\* the branch r['GatewayId'].startswith('vgw-')
report_vpn_gateway_if_valid(ec2_client, r, verbose, out) ==
    LET api == <<"describe_vpn_gateways">>
        o == out \o <<"Via gateway", "Virtual Private Gateway:">>
    IN  IF Len(ec2_client.VpnGateways) # 1 THEN Report("AssertionError", None, o, api)
        ELSE IF Len(ec2_client.VpnGateways[1].VpcAttachments) # 1
             THEN Report("AssertionError", None, o, api)
        ELSE LET source_gateway == ec2_client.VpnGateways[1]
                 not_available == source_gateway.State # "available"
                 not_attached == source_gateway.VpcAttachments[1].State # "attached"
                 o1 == IF not_available THEN Append(o, VgwNotAvailable) ELSE o
                 o2 == IF not_attached THEN Append(o1, VgwNotAttached) ELSE o1
                 dc_vifs == get_dc_virtual_interface(ec2_client.virtualInterfaces, r.GatewayId)
                 problem == report_dc_virtual_interfaces(dc_vifs, verbose)
             IN  IF not_available \/ not_attached
                 THEN Report("", TRUE, o2, api)
                 ELSE Report("", problem.value, o2 \o problem.out,
                             Append(api, "describe_virtual_interfaces"))

report_vpn_gateway_state_only(ec2_client, r, verbose, out) ==
    LET api == <<"describe_vpn_gateways">>
        o == out \o <<"Via gateway", "Virtual Private Gateway:">>
    IN  IF Len(ec2_client.VpnGateways) # 1 THEN Report("AssertionError", None, o, api)
        ELSE IF Len(ec2_client.VpnGateways[1].VpcAttachments) # 1
             THEN Report("AssertionError", None, o, api)
        ELSE LET source_gateway == ec2_client.VpnGateways[1]
                 not_available == source_gateway.State # "available"
                 o1 == IF not_available THEN Append(o, VgwNotAvailable) ELSE o
                 dc_vifs == get_dc_virtual_interface(ec2_client.virtualInterfaces, r.GatewayId)
                 problem == report_dc_virtual_interfaces(dc_vifs, verbose)
             IN  Report("", not_available \/ problem.value, o1 \o problem.out,
                        Append(api, "describe_virtual_interfaces"))

report_vpn_gateway(ec2_client, r, verbose, out) ==
    LET api == <<"describe_vpn_gateways">>
        o == out \o <<"Via gateway", "Virtual Private Gateway:">>
    IN  IF Len(ec2_client.VpnGateways) # 1 THEN Report("AssertionError", None, o, api)
        ELSE IF Len(ec2_client.VpnGateways[1].VpcAttachments) # 1
             THEN Report("AssertionError", None, o, api)
        ELSE LET source_gateway == ec2_client.VpnGateways[1]
                 not_available == source_gateway.State # "available"
                 not_attached == source_gateway.VpcAttachments[1].State # "attached"
                 o1 == IF not_available THEN Append(o, VgwNotAvailable) ELSE o
                 o2 == IF not_attached THEN Append(o1, VgwNotAttached) ELSE o1
                 dc_vifs == get_dc_virtual_interface(ec2_client.virtualInterfaces, r.GatewayId)
                 problem == report_dc_virtual_interfaces(dc_vifs, verbose)
             IN  Report("", not_available \/ not_attached \/ problem.value,
                        o2 \o problem.out, Append(api, "describe_virtual_interfaces"))

\* the branch 'GatewayId' in r
report_gateway_other_is_problem(ec2_client, r, verbose, out) ==
    IF StartsWith(r.GatewayId, <<"i", "g", "w", "-">>) THEN report_internet_gateway(ec2_client, r, out)
    ELSE IF StartsWith(r.GatewayId, <<"v", "g", "w", "-">>)
         THEN report_vpn_gateway(ec2_client, r, verbose, out)
         ELSE Report("", TRUE, out \o <<"Via gateway", OtherGateway>>, <<>>)

report_gateway(ec2_client, r, verbose, out) ==
    IF StartsWith(r.GatewayId, <<"i", "g", "w", "-">>) THEN report_internet_gateway(ec2_client, r, out)
    ELSE IF StartsWith(r.GatewayId, <<"v", "g", "w", "-">>)
         THEN report_vpn_gateway(ec2_client, r, verbose, out)
         ELSE Report("", FALSE, out \o <<"Via gateway", OtherGateway>>, <<>>)

\* the branch 'NatGatewayId' in r, had it only printed the state
report_nat_gateway_state_printed(ec2_client, r, out) ==
    LET api == <<"describe_nat_gateways">>
        o == Append(out, "Via NAT")
    IN  IF Len(ec2_client.NatGateways) # 1 THEN Report("AssertionError", None, o, api)
        ELSE IF ec2_client.NatGateways[1].State # "available"
             THEN Report("", FALSE, Append(o, NatNotAvailable), api)
             ELSE Report("", FALSE, o, api)

\* the branch 'NatGatewayId' in r, with get_nat_gateway
report_nat_gateway(ec2_client, r, out) ==
    LET api == <<"describe_nat_gateways">>
        o == Append(out, "Via NAT")
    IN  IF Len(ec2_client.NatGateways) # 1 THEN Report("AssertionError", None, o, api)
        ELSE IF ec2_client.NatGateways[1].State # "available"
             THEN Report("", TRUE, Append(o, NatNotAvailable), api)
             ELSE Report("", FALSE, o, api)

\* the branch 'VpcPeeringConnectionId' in r, had it surfaced the source's own
\* side of the connection
report_peering_connection_own_side(ec2_client, r, source_vpc_id, out) ==
    LET api == <<"describe_vpc_peering_connections">>
        o == Append(out, "Via peering connection")
    IN  IF Len(ec2_client.VpcPeeringConnections) # 1 THEN Report("AssertionError", None, o, api)
        ELSE LET vpc_peering_connection == ec2_client.VpcPeeringConnections[1]
                 not_active == vpc_peering_connection.Status.Code # "active"
                 o1 == IF not_active THEN Append(o, PeeringNotActive) ELSE o
                 destination_peering_info ==
                    IF vpc_peering_connection.AccepterVpcInfo.VpcId = source_vpc_id
                    THEN vpc_peering_connection.AccepterVpcInfo
                    ELSE vpc_peering_connection.RequesterVpcInfo
             IN  Report("", not_active,
                        o1 \o <<DestinationPeeringInfo, destination_peering_info.VpcId>>, api)

\* the branch 'VpcPeeringConnectionId' in r, with get_vpc_peering_connections;
\* the last line printed is the VpcId of destination_peering_info
report_peering_connection(ec2_client, r, source_vpc_id, out) ==
    LET api == <<"describe_vpc_peering_connections">>
        o == Append(out, "Via peering connection")
    IN  IF Len(ec2_client.VpcPeeringConnections) # 1 THEN Report("AssertionError", None, o, api)
        ELSE LET vpc_peering_connection == ec2_client.VpcPeeringConnections[1]
                 not_active == vpc_peering_connection.Status.Code # "active"
                 o1 == IF not_active THEN Append(o, PeeringNotActive) ELSE o
                 destination_peering_info ==
                    IF vpc_peering_connection.AccepterVpcInfo.VpcId = source_vpc_id
                    THEN vpc_peering_connection.RequesterVpcInfo
                    ELSE vpc_peering_connection.AccepterVpcInfo
             IN  Report("", not_active,
                        o1 \o <<DestinationPeeringInfo, destination_peering_info.VpcId>>, api)

\* the route found, or none, to the verdict
route_verdict_no_route_ok(ec2_client, found, source_vpc_id, verbose) ==
    IF found.value = None THEN Report("", FALSE, found.out, <<>>)
    ELSE LET r == found.value[1]
             out == Append(found.out, "Matching route:")
         IN  IF "GatewayId" \in DOMAIN r THEN report_gateway(ec2_client, r, verbose, out)
             ELSE IF "NatGatewayId" \in DOMAIN r THEN report_nat_gateway(ec2_client, r, out)
             ELSE IF "VpcPeeringConnectionId" \in DOMAIN r
                  THEN report_peering_connection(ec2_client, r, source_vpc_id, out)
             ELSE Report("", TRUE, Append(out, UnknownRouteType), <<>>)

route_verdict(ec2_client, found, source_vpc_id, verbose) ==
    IF found.value = None THEN Report("", TRUE, Append(found.out, NoRoute), <<>>)
    ELSE LET r == found.value[1]
             out == Append(found.out, "Matching route:")
         IN  IF "GatewayId" \in DOMAIN r THEN report_gateway(ec2_client, r, verbose, out)
             ELSE IF "NatGatewayId" \in DOMAIN r THEN report_nat_gateway(ec2_client, r, out)
             ELSE IF "VpcPeeringConnectionId" \in DOMAIN r
                  THEN report_peering_connection(ec2_client, r, source_vpc_id, out)
             ELSE Report("", TRUE, Append(out, UnknownRouteType), <<>>)

\* ec2_client: the AWS clients, as the answers of the describe_* calls made
\* value: network_problem_exists
report_route_table(ec2_client, source_route_table, source_vpc_id, source_ip_address, dest_ip_address, verbose) ==
    LET found == find_route_matches(source_route_table.Routes, dest_ip_address, verbose)
    IN  IF found.exc # "" THEN Report(found.exc, None, found.out, <<>>)
        ELSE route_verdict(ec2_client, found, source_vpc_id, verbose)

----------------------------------------------------------------------------
(* The lookups of main: instances, subnets, route tables, NACLs *)

\* d.get(key), as an option
Get(d, key) == IF key \in DOMAIN d THEN Some(d[key]) ELSE None

RECURSIVE get_value_for_tag_key(_, _)
get_value_for_tag_key(tags, key) ==
    IF tags = <<>> THEN ""
    ELSE IF Head(tags).Key = key THEN Head(tags).Value
    ELSE get_value_for_tag_key(Tail(tags), key)

\* Reservations: the answer of describe_instances for the private IP address
\* value: None, or the instance with its Name
get_ec2_instance_by_private_ip(Reservations) ==
    IF Len(Reservations) < 1 THEN Ok(None, <<>>)
    ELSE IF Len(Reservations) # 1 THEN Raise("AssertionError", <<>>)
    ELSE IF Len(Reservations[1].Instances) # 1 THEN Raise("AssertionError", <<>>)
    ELSE LET source_instance == Reservations[1].Instances[1]
         IN  IF "Tags" \notin DOMAIN source_instance THEN Raise("KeyError", <<>>)
             ELSE Ok(Some([k \in DOMAIN source_instance \cup {"Name"} |->
                               IF k = "Name"
                               THEN get_value_for_tag_key(source_instance.Tags, "Name")
                               ELSE source_instance[k]]), <<>>)

\* DBInstances / ReplicationInstances: the answer of describe_db_instances /
\* describe_replication_instances for the name
get_rds_instance(DBInstances) ==
    IF Len(DBInstances) > 1 THEN Raise("AssertionError", <<>>)
    ELSE IF Len(DBInstances) = 0 THEN Ok(None, <<>>)
    ELSE Ok(Some(DBInstances[1]), <<>>)

get_dms_instance(ReplicationInstances) ==
    IF Len(ReplicationInstances) > 1 THEN Raise("AssertionError", <<>>)
    ELSE IF Len(ReplicationInstances) = 0 THEN Ok(None, <<>>)
    ELSE Ok(Some(ReplicationInstances[1]), <<>>)

SubnetNotActive == "WARNING. Subnet in DBSubnetGroup is not 'Active'"

RECURSIVE process_subnet_list(_)
process_subnet_list(subnets) ==
    IF subnets = <<>> THEN Ok(<<>>, <<>>)
    ELSE LET rest == process_subnet_list(Tail(subnets))
         IN  IF Head(subnets).SubnetStatus = "Active"
             THEN Ok(<<Head(subnets).SubnetIdentifier>> \o rest.value, rest.out)
             ELSE Ok(rest.value, <<SubnetNotActive>> \o rest.out)

\* x in list
InSeq(x, list) == \E k \in 1..Len(list) : list[k] = x

\* describe_subnets(SubnetIds=subnet_id_list) on the subnets of the account;
\* an empty list of identifiers selects them all
describe_subnets(ec2_client, subnet_id_list) ==
    IF subnet_id_list = <<>> THEN ec2_client.Subnets
    ELSE SelectSeq(ec2_client.Subnets, LAMBDA sn : InSeq(sn.SubnetId, subnet_id_list))

get_subnets(ec2_client, subnet_id_list, verbose) ==
    LET Subnets == describe_subnets(ec2_client, subnet_id_list)
    IN  IF Len(subnet_id_list) # Len(Subnets) THEN Raise("AssertionError", <<>>)
        ELSE Ok(Subnets, <<>>)

\* the loop of find_subnet_for_ip from subnet i on: None, <<s>> or "raise"
RECURSIVE find_subnet_loop(_, _, _)
find_subnet_loop(subnets, ip_address, i) ==
    IF i > Len(subnets) THEN Ok(None, <<>>)
    ELSE IF ~IsNetwork(subnets[i].CidrBlock) THEN Raise("ValueError", <<>>)
    ELSE IF InNetwork(ip_address, subnets[i].CidrBlock) THEN Ok(Some(subnets[i]), <<>>)
    ELSE find_subnet_loop(subnets, ip_address, i + 1)

\* value: None or <<s>>, the subnet of the address
find_subnet_for_ip(ec2_client, subnet_id_list, ip_address_str, verbose) ==
    LET subnets == get_subnets(ec2_client, subnet_id_list, verbose)
    IN  IF subnets.exc # "" THEN subnets
        ELSE IF ~IsAddress(ip_address_str) THEN Raise("ValueError", <<>>)
        ELSE find_subnet_loop(subnets.value, ip_address_str, 1)

\* describe_route_tables with the filter association.subnet-id
route_tables_of_subnet(ec2_client, subnet_id) ==
    SelectSeq(ec2_client.RouteTables,
              LAMBDA t : \E k \in 1..Len(t.Associations) :
                            Get(t.Associations[k], "SubnetId") = Some(subnet_id))

\* describe_route_tables with the filters vpc-id and association.main
main_route_tables_of_vpc(ec2_client, vpc_id) ==
    SelectSeq(ec2_client.RouteTables,
              LAMBDA t : t.VpcId = vpc_id
                         /\ \E k \in 1..Len(t.Associations) : t.Associations[k].Main)

get_main_route_table_for_vpc(ec2_client, vpc_id) ==
    LET RouteTables == main_route_tables_of_vpc(ec2_client, vpc_id)
    IN  IF Len(RouteTables) # 1 THEN Raise("AssertionError", <<>>)
        ELSE Ok(RouteTables[1], <<>>)

\* get_route_table_for_subnet without the assertion: of several tables
\* associated with the subnet the first is returned
get_route_table_for_subnet_first_of_many(ec2_client, vpc_id, subnet_id, verbose) ==
    LET RouteTables == route_tables_of_subnet(ec2_client, subnet_id)
    IN  IF Len(RouteTables) >= 1 THEN Ok(RouteTables[1], <<>>)
        ELSE get_main_route_table_for_vpc(ec2_client, vpc_id)

get_route_table_for_subnet(ec2_client, vpc_id, subnet_id, verbose) ==
    LET RouteTables == route_tables_of_subnet(ec2_client, subnet_id)
    IN  IF Len(RouteTables) > 1 THEN Raise("AssertionError", <<>>)
        ELSE IF Len(RouteTables) = 1 THEN Ok(RouteTables[1], <<>>)
        ELSE get_main_route_table_for_vpc(ec2_client, vpc_id)

\* rtables[result['RouteTableId']] = result, rtables a sequence of the
\* values in the order their keys were first set
PutTable(rtables, result) ==
    IF \E k \in 1..Len(rtables) : rtables[k].RouteTableId = result.RouteTableId
    THEN [k \in 1..Len(rtables) |->
            IF rtables[k].RouteTableId = result.RouteTableId THEN result ELSE rtables[k]]
    ELSE Append(rtables, result)

RECURSIVE get_route_tables_loop(_, _, _, _, _)
get_route_tables_loop(ec2_client, vpc_id, list_subnet_ids, i, rtables) ==
    IF i > Len(list_subnet_ids) THEN Ok(rtables, <<>>)
    ELSE LET result == get_route_table_for_subnet(ec2_client, vpc_id, list_subnet_ids[i], FALSE)
         IN  IF result.exc # "" THEN result
             ELSE get_route_tables_loop(ec2_client, vpc_id, list_subnet_ids, i + 1,
                                        PutTable(rtables, result.value))

get_route_tables_for_subnets(ec2_client, vpc_id, list_subnet_ids, verbose) ==
    get_route_tables_loop(ec2_client, vpc_id, list_subnet_ids, 1, <<>>)

\* describe_network_acls with the filter association.subnet-id
get_nacls_for_subnets(ec2_client, list_subnet_ids, verbose) ==
    SelectSeq(ec2_client.NetworkAcls,
              LAMBDA n : \E k \in 1..Len(n.Associations) :
                            InSeq(n.Associations[k].SubnetId, list_subnet_ids))

NotSameRouteTable == "WARNING. Subnets in DBSubnetGroup do not use the same route table!"
NotSameNacl == "WARNING. Subnets in DBSubnetGroup do not use the same NACL!"

\* report_db_subnet_groups, had it returned a problem for subnets that do not
\* share one route table or one NACL
report_db_subnet_groups_divergence_is_problem(ec2_client, vpc_id, subnet_id_list, verbose) ==
    LET tables == get_route_tables_for_subnets(ec2_client, vpc_id, subnet_id_list, FALSE)
        nacls == get_nacls_for_subnets(ec2_client, subnet_id_list, verbose)
    IN  IF tables.exc # "" THEN tables
        ELSE IF Len(tables.value) = 0 THEN Raise("AssertionError", <<>>)
        ELSE LET out == IF Len(tables.value) > 1 THEN <<NotSameRouteTable>> ELSE <<>>
             IN  IF Len(nacls) = 0 THEN Raise("AssertionError", out)
                 ELSE Ok(Len(tables.value) > 1 \/ Len(nacls) > 1,
                         IF Len(nacls) > 1 THEN Append(out, NotSameNacl) ELSE out)

\* value: FALSE
report_db_subnet_groups(ec2_client, vpc_id, subnet_id_list, verbose) ==
    LET tables == get_route_tables_for_subnets(ec2_client, vpc_id, subnet_id_list, FALSE)
        nacls == get_nacls_for_subnets(ec2_client, subnet_id_list, verbose)
    IN  IF tables.exc # "" THEN tables
        ELSE IF Len(tables.value) = 0 THEN Raise("AssertionError", <<>>)
        ELSE LET out == IF Len(tables.value) > 1 THEN <<NotSameRouteTable>> ELSE <<>>
             IN  IF Len(nacls) = 0 THEN Raise("AssertionError", out)
                 ELSE Ok(FALSE, IF Len(nacls) > 1 THEN Append(out, NotSameNacl) ELSE out)

----------------------------------------------------------------------------
(* main, step by step. m is the record of main's local variables: a local   *)
(* that is not bound yet is None, a bound one is <<value>>. m.exc is the     *)
(* exception that ended the run, m.out what main itself printed.            *)

Ec2NotFound == "ERROR. Source EC2 instance cannot be found."
RdsNotFound == "ERROR. Source RDS instance cannot be found."
DmsNotFound == "ERROR. Source DMS instance cannot be found."
SummaryError == "ERROR. Some network connectivity problem exists. Review output of this tool."
SummaryOk == "OK. No obvious network connectivity problem exists from the perspective of the source."

\* the locals of main after the arguments are parsed, had the list of
\* security groups and the problem flag been kept from one run to the next
main_start_keeping(args) ==
    [verbose |-> args.verbose,
     source_ec2_ip_address |-> args.source_ec2_ip,
     dest_ip_address |-> args.dest_ip,
     source_rds_name |-> args.source_rds,
     source_dms_name |-> args.source_dms,
     source_security_group_ids |->
        IF "source_security_group_ids" \in DOMAIN main THEN main.source_security_group_ids
        ELSE <<>>,
     network_problem_exists |->
        IF "network_problem_exists" \in DOMAIN main THEN main.network_problem_exists
        ELSE FALSE,
     source_ip_address |-> None,
     source_vpc_id |-> None,
     source_subnet_id |-> None,
     source_route_table |-> None,
     source_nacl |-> None,
     problem |-> None,
     exc |-> "",
     out |-> <<>>]

\* the locals of main after the arguments are parsed
main_start(args) ==
    [verbose |-> args.verbose,
     source_ec2_ip_address |-> args.source_ec2_ip,
     dest_ip_address |-> args.dest_ip,
     source_rds_name |-> args.source_rds,
     source_dms_name |-> args.source_dms,
     source_security_group_ids |-> <<>>,
     network_problem_exists |-> FALSE,
     source_ip_address |-> None,
     source_vpc_id |-> None,
     source_subnet_id |-> None,
     source_route_table |-> None,
     source_nacl |-> None,
     problem |-> None,
     exc |-> "",
     out |-> <<>>]

Raised(m, e) == [m EXCEPT !.exc = e]

\* the identifiers of a list of groups, under the key they are kept
GroupIds(groups, key) == [k \in 1..Len(groups) |-> groups[k][key]]

\* if source_ec2_ip_address != '': ...
main_ec2(m, ec2_client) ==
    IF m.source_ec2_ip_address = NoAddress THEN m
    ELSE LET got == get_ec2_instance_by_private_ip(ec2_client.Reservations)
         IN  IF got.exc # "" THEN Raised(m, got.exc)
             ELSE IF got.value = None THEN [m EXCEPT !.out = Append(@, Ec2NotFound)]
             ELSE LET source_instance == got.value[1]
                  IN  IF m.source_ec2_ip_address # source_instance.PrivateIpAddress
                      THEN Raised(m, "AssertionError")
                      ELSE [m EXCEPT
                              !.source_vpc_id = Some(source_instance.VpcId),
                              !.source_subnet_id = Some(source_instance.SubnetId),
                              !.source_ip_address = Some(source_instance.PrivateIpAddress),
                              !.source_security_group_ids =
                                  @ \o GroupIds(source_instance.SecurityGroups, "GroupId")]

\* the shared part with the security groups of the source replacing those of
\* the sources before it
main_subnet_group_groups_replaced(m, ec2_client, vpc_id, ip_address, Subnets, VpcSecurityGroups) ==
    LET subnet_id_list == process_subnet_list(Subnets)
        source_subnet == find_subnet_for_ip(ec2_client, subnet_id_list.value, ip_address,
                                            m.verbose)
        problem == report_db_subnet_groups(ec2_client, vpc_id, subnet_id_list.value, m.verbose)
    IN  IF source_subnet.exc # "" THEN Raised(m, source_subnet.exc)
        ELSE IF source_subnet.value = None THEN Raised(m, "AssertionError")
        ELSE IF problem.exc # "" THEN Raised(m, problem.exc)
        ELSE [m EXCEPT
                !.source_vpc_id = Some(vpc_id),
                !.source_ip_address = Some(ip_address),
                !.source_subnet_id = Some(source_subnet.value[1].SubnetId),
                !.problem = Some(problem.value),
                !.network_problem_exists = @ \/ problem.value,
                !.source_security_group_ids = GroupIds(VpcSecurityGroups, "VpcSecurityGroupId"),
                !.out = @ \o subnet_id_list.out \o problem.out]

\* the part that the RDS and the DMS branch share: the subnet of the source
\* address, the check of the subnet group, the security groups
main_subnet_group(m, ec2_client, vpc_id, ip_address, Subnets, VpcSecurityGroups) ==
    LET subnet_id_list == process_subnet_list(Subnets)
        source_subnet == find_subnet_for_ip(ec2_client, subnet_id_list.value, ip_address,
                                            m.verbose)
        problem == report_db_subnet_groups(ec2_client, vpc_id, subnet_id_list.value, m.verbose)
    IN  IF source_subnet.exc # "" THEN Raised(m, source_subnet.exc)
        ELSE IF source_subnet.value = None THEN Raised(m, "AssertionError")
        ELSE IF problem.exc # "" THEN Raised(m, problem.exc)
        ELSE [m EXCEPT
                !.source_vpc_id = Some(vpc_id),
                !.source_ip_address = Some(ip_address),
                !.source_subnet_id = Some(source_subnet.value[1].SubnetId),
                !.problem = Some(problem.value),
                !.network_problem_exists = @ \/ problem.value,
                !.source_security_group_ids =
                    @ \o GroupIds(VpcSecurityGroups, "VpcSecurityGroupId"),
                !.out = @ \o subnet_id_list.out \o problem.out]

\* if source_rds_name != '': ...
\* ec2_client.hostbyname: what socket.gethostbyname answers, if it does
main_rds(m, ec2_client) ==
    IF m.source_rds_name = "" THEN m
    ELSE LET got == get_rds_instance(ec2_client.DBInstances)
         IN  IF got.exc # "" THEN Raised(m, got.exc)
             ELSE IF got.value = None THEN [m EXCEPT !.out = Append(@, RdsNotFound)]
             ELSE IF ec2_client.hostbyname = None THEN Raised(m, "gaierror")
             ELSE LET source_rds_instance == got.value[1]
                      after == main_subnet_group(m, ec2_client,
                                   source_rds_instance.DBSubnetGroup.VpcId,
                                   ec2_client.hostbyname[1],
                                   source_rds_instance.DBSubnetGroup.Subnets,
                                   source_rds_instance.VpcSecurityGroups)
                  IN  IF after.exc # "" THEN after
                      \* str has no method starts_with
                      ELSE IF source_rds_instance.PubliclyAccessible
                           THEN Raised(after, "AttributeError")
                           ELSE after

\* if source_dms_name != '': ...
main_dms(m, ec2_client) ==
    IF m.source_dms_name = "" THEN m
    ELSE LET got == get_dms_instance(ec2_client.ReplicationInstances)
         IN  IF got.exc # "" THEN Raised(m, got.exc)
             ELSE IF got.value = None THEN [m EXCEPT !.out = Append(@, DmsNotFound)]
             ELSE LET source_dms_instance == got.value[1]
                  IN  main_subnet_group(m, ec2_client,
                          source_dms_instance.ReplicationSubnetGroup.VpcId,
                          source_dms_instance.ReplicationInstancePrivateIpAddress,
                          source_dms_instance.ReplicationSubnetGroup.Subnets,
                          source_dms_instance.VpcSecurityGroups)

\* print("Source IP Address: " + source_ip_address) ...
main_common(m) ==
    IF m.source_ip_address = None THEN Raised(m, "UnboundLocalError") ELSE m

\* describe_security_groups(GroupIds=sg_group_ids) on the groups of the
\* account: no identifiers select them all, an unknown identifier is an error
describe_security_groups(ec2_client, sg_group_ids) ==
    IF sg_group_ids = <<>> THEN Ok(ec2_client.SecurityGroups, <<>>)
    ELSE IF \E k \in 1..Len(sg_group_ids) :
                \A g \in 1..Len(ec2_client.SecurityGroups) :
                    ec2_client.SecurityGroups[g].GroupId # sg_group_ids[k]
         THEN Raise("ClientError", <<>>)
         ELSE Ok(SelectSeq(ec2_client.SecurityGroups,
                           LAMBDA g : InSeq(g.GroupId, sg_group_ids)), <<>>)

\* the result of a report, into problem and network_problem_exists
main_problem_and(m, problem) ==
    IF problem.exc # "" THEN Raised(m, problem.exc)
    ELSE [m EXCEPT !.problem = Some(problem.value),
                   !.network_problem_exists = @ /\ problem.value]

main_problem(m, problem) ==
    IF problem.exc # "" THEN Raised(m, problem.exc)
    ELSE [m EXCEPT !.problem = Some(problem.value),
                   !.network_problem_exists = @ \/ problem.value]

\* SECURITY GROUPS: the report made
security_groups_report(m, ec2_client) ==
    LET answer == describe_security_groups(ec2_client, m.source_security_group_ids)
    IN  IF answer.exc # "" THEN answer
        ELSE report_security_groups(answer.value, m.source_security_group_ids,
                                    m.source_ip_address[1], m.dest_ip_address, m.verbose)

\* ROUTE TABLE: the table of the source's subnet, and the report made
route_table_report(m, ec2_client) ==
    LET source_route_table == get_route_table_for_subnet(ec2_client, m.source_vpc_id[1],
                                                         m.source_subnet_id[1], m.verbose)
    IN  IF source_route_table.exc # "" THEN source_route_table
        ELSE report_route_table(ec2_client, source_route_table.value, m.source_vpc_id[1],
                                m.source_ip_address[1], m.dest_ip_address, m.verbose)

\* NACL: the NACL of the source's subnet, and the report made
nacl_report(m, ec2_client) ==
    LET result == get_nacls_for_subnets(ec2_client, <<m.source_subnet_id[1]>>, m.verbose)
    IN  IF Len(result) # 1 THEN Raise("AssertionError", <<>>)
        ELSE report_nacl(result[1], m.source_ip_address[1], m.dest_ip_address, m.verbose)

\* print("Summary: ") ...
main_summary(m) ==
    [m EXCEPT !.out = Append(@, IF m.network_problem_exists THEN SummaryError
                                ELSE SummaryOk)]

----------------------------------------------------------------------------
(* Inputs: addresses, CIDR blocks and routes *)

Addr_10_1_2_3 == <<10, 1, 2, 3>>
Addr_10_2_0_1 == <<10, 2, 0, 1>>
Addr_8_8_8_8 == <<8, 8, 8, 8>>

Cidr(a, b, c, d, p) == [addr |-> <<a, b, c, d>>, prefixlen |-> p]

\* destination addresses as given on the command line; one does not parse
DestStrs == {Addr_10_1_2_3, Addr_10_2_0_1, Addr_8_8_8_8, BadAddress}

\* CIDR strings; the last has host bits set and ip_network rejects it
GoodCidrs == {ALL_IPV4, Cidr(10, 0, 0, 0, 8), Cidr(10, 1, 0, 0, 16)}
BadCidr == Cidr(10, 1, 2, 3, 16)
CidrStrs == GoodCidrs \cup {BadCidr}

igw_1 == <<"i", "g", "w", "-", "1">>
vgw_1 == <<"v", "g", "w", "-", "1">>
local == <<"l", "o", "c", "a", "l">>

\* the targets a route of describe_route_tables can carry
GatewayTargets == {[GatewayId |-> g] : g \in {igw_1, vgw_1, local}}
NatTargets == {[NatGatewayId |-> "nat-1"]}
PeeringTargets == {[VpcPeeringConnectionId |-> "pcx-1"]}
OtherTargets == {[TransitGatewayId |-> "tgw-1"]}
Targets == GatewayTargets \cup NatTargets \cup PeeringTargets \cup OtherTargets

\* r with the key DestinationCidrBlock set to c
WithCidr(t, c) ==
    [k \in DOMAIN t \cup {"DestinationCidrBlock"} |->
        IF k = "DestinationCidrBlock" THEN c ELSE t[k]]

\* routes over the targets T: with a destination CIDR block, or without
\* (a route to an IPv6 block or to a prefix list)
RoutesOver(T, C) == T \cup {WithCidr(t, c) : t \in T, c \in C}

\* the routes of a source's route table
TableRoutes == {WithCidr(t, c) : t \in Targets, c \in {ALL_IPV4, Cidr(10, 1, 0, 0, 16)}}

\* the entries of a NACL: an IPv4 entry has a CidrBlock, an IPv6 entry has
\* an Ipv6CidrBlock instead
NaclCidrs == {ALL_IPV4, Cidr(10, 1, 0, 0, 16), BadCidr}
NaclEntries ==
    [CidrBlock : NaclCidrs, Egress : BOOLEAN] \cup [Ipv6CidrBlock : {"::/0"}, Egress : BOOLEAN]

\* the permissions of a security group
SgCidrs == {ALL_IPV4, Cidr(10, 1, 0, 0, 16), BadCidr}
IpRangesOver(C, n) == SeqsUpTo([CidrIp : C], n)
Ipv6RangesAny == {<<>>, <<[CidrIpv6 |-> "::/0"]>>}
PrefixListIdsAny == {<<>>, <<[PrefixListId |-> "pl-1"]>>}
UserIdGroupPairsAny == {<<>>, <<[GroupId |-> "sg-9"]>>}
Permissions ==
    [IpRanges : IpRangesOver(SgCidrs, MaxRanges), Ipv6Ranges : Ipv6RangesAny,
     PrefixListIds : PrefixListIdsAny, UserIdGroupPairs : UserIdGroupPairsAny]
PlainPermissions ==
    [IpRanges : IpRangesOver(SgCidrs, 1), Ipv6Ranges : {<<>>},
     PrefixListIds : {<<>>}, UserIdGroupPairs : UserIdGroupPairsAny]
\* lists of plain permissions, and single permissions of any shape
PermissionLists == SeqsUpTo(PlainPermissions, MaxPerms) \cup [1..1 -> Permissions]

Perm(ranges, v6, pairs) ==
    [IpRanges |-> ranges, Ipv6Ranges |-> v6, PrefixListIds |-> <<>>, UserIdGroupPairs |-> pairs]
GroupPermissionLists ==
    {<<>>,
     <<Perm(<<[CidrIp |-> ALL_IPV4]>>, <<>>, <<>>)>>,
     <<Perm(<<[CidrIp |-> Cidr(10, 1, 0, 0, 16)]>>, <<[CidrIpv6 |-> "::/0"]>>, <<>>)>>,
     <<Perm(<<[CidrIp |-> BadCidr]>>, <<>>, <<>>),
       Perm(<<>>, <<>>, <<[GroupId |-> "sg-9"]>>)>>}
SecurityGroupsAny ==
    [IpPermissions : GroupPermissionLists, IpPermissionsEgress : GroupPermissionLists]

\* Direct Connect virtual interfaces and their BGP peers
BgpPeers == {[bgpStatus |-> "up", bgpPeerState |-> "available"],
             [bgpStatus |-> "down", bgpPeerState |-> "available"],
             [bgpStatus |-> "up", bgpPeerState |-> "pending"]}
VirtualInterfaces ==
    [virtualInterfaceState : {"available", "down"}, bgpPeers : SeqsUpTo(BgpPeers, MaxPeers),
     virtualGatewayId : {vgw_1}]
PlainVirtualInterfaces ==
    [virtualInterfaceState : {"available", "down"}, bgpPeers : SeqsUpTo(BgpPeers, 1),
     virtualGatewayId : {vgw_1}]
\* lists of interfaces of at most one peer, and single interfaces of any shape
VirtualInterfaceLists ==
    SeqsUpTo(PlainVirtualInterfaces, MaxVifs) \cup [1..1 -> VirtualInterfaces]

----------------------------------------------------------------------------
(* The answers of AWS to the calls of report_route_table *)

NoAws == [SecurityGroups |-> <<>>, InternetGateways |-> <<>>, VpnGateways |-> <<>>,
          virtualInterfaces |-> <<>>, NatGateways |-> <<>>, VpcPeeringConnections |-> <<>>,
          Reservations |-> <<>>, DBInstances |-> <<>>, ReplicationInstances |-> <<>>,
          hostbyname |-> <<>>, Subnets |-> <<>>, RouteTables |-> <<>>, NetworkAcls |-> <<>>]

\* a list that should hold one item: none, one, or one twice
AtMostTwo(S) == SeqsUpTo(S, 1) \cup {<<x, x>> : x \in {CHOOSE y \in S : TRUE}}

InternetGatewaysAny ==
    AtMostTwo([Attachments : AtMostTwo([State : {"available", "detached"}])])
VpnGatewaysAny ==
    AtMostTwo([State : {"available", "pending"},
               VpcAttachments : AtMostTwo([State : {"attached", "detached"}])])
NatGatewaysAny == AtMostTwo([State : {"available", "failed"}])
VpcPeeringConnectionsAny ==
    AtMostTwo([Status : [Code : {"active", "pending-acceptance"}],
               AccepterVpcInfo : [VpcId : {"vpc-1", "vpc-2"}],
               RequesterVpcInfo : [VpcId : {"vpc-1", "vpc-3"}]])

Vif(state, peers, gw) ==
    [virtualInterfaceState |-> state, bgpPeers |-> peers, virtualGatewayId |-> gw]
PeerUp == [bgpStatus |-> "up", bgpPeerState |-> "available"]
PeerDown == [bgpStatus |-> "down", bgpPeerState |-> "available"]
vgw_2 == <<"v", "g", "w", "-", "2">>
\* the interfaces of the account, of this gateway and of another
AccountVirtualInterfaces ==
    {<<>>,
     <<Vif("available", <<PeerUp>>, vgw_1)>>,
     <<Vif("down", <<PeerUp>>, vgw_1)>>,
     <<Vif("available", <<PeerUp, PeerDown>>, vgw_1)>>,
     <<Vif("available", <<PeerUp>>, vgw_1), Vif("down", <<>>, vgw_1)>>,
     <<Vif("available", <<PeerUp>>, vgw_2)>>,
     <<Vif("down", <<PeerUp>>, vgw_2), Vif("available", <<PeerUp>>, vgw_1)>>}

AnyGateways ==
    [InternetGateways |-> InternetGatewaysAny, VpnGateways |-> VpnGatewaysAny,
     virtualInterfaces |-> AccountVirtualInterfaces, NatGateways |-> NatGatewaysAny,
     VpcPeeringConnections |-> VpcPeeringConnectionsAny]

\* the client base with the answers, out of G, to the calls that
\* report_route_table makes for the route found
AwsAnswers(base, found, G) ==
    IF found.exc # "" \/ found.value = None THEN {base}
    ELSE LET r == found.value[1]
         IN  IF "GatewayId" \in DOMAIN r
             THEN IF StartsWith(r.GatewayId, <<"i", "g", "w", "-">>)
                  THEN {[base EXCEPT !.InternetGateways = g] : g \in G.InternetGateways}
                  ELSE IF StartsWith(r.GatewayId, <<"v", "g", "w", "-">>)
                  THEN {[base EXCEPT !.VpnGateways = g, !.virtualInterfaces = v] :
                            g \in G.VpnGateways, v \in G.virtualInterfaces}
                  ELSE {base}
             ELSE IF "NatGatewayId" \in DOMAIN r
             THEN {[base EXCEPT !.NatGateways = g] : g \in G.NatGateways}
             ELSE IF "VpcPeeringConnectionId" \in DOMAIN r
             THEN {[base EXCEPT !.VpcPeeringConnections = g] : g \in G.VpcPeeringConnections}
             ELSE {base}

----------------------------------------------------------------------------
(* Specification of the analysis functions, each called on its own *)

Idle == [step |-> "none"]

Calls(fn, Args) == {[fn |-> fn, args |-> a] : a \in Args}

RouteArgs ==
    [routes : SeqsUpTo(RoutesOver(NatTargets \cup PeeringTargets, CidrStrs), MaxRoutes),
     dest_ip_str : DestStrs, verbose : BOOLEAN]
NaclArgs ==
    [nacl_entries : SeqsUpTo(NaclEntries, MaxEntries),
     dest_ip_str : {Addr_10_1_2_3, Addr_8_8_8_8, BadAddress}]
PermissionArgs ==
    [permissions : PermissionLists, dest_ip_str : {Addr_10_1_2_3, Addr_8_8_8_8, BadAddress}]
SecurityGroupArgs ==
    [source_security_group_ids : SeqsUpTo({"sg-1"}, MaxGroups),
     dest_ip_address : {Addr_10_1_2_3, Addr_8_8_8_8, BadAddress}]
VifArgs == [dc_vifs : VirtualInterfaceLists]
RouteTableArgs ==
    [source_route_table :
        [Routes : SeqsUpTo(TableRoutes, MaxTableRoutes)],
     source_vpc_id : {"vpc-1", "vpc-2"},
     dest_ip_address : {Addr_10_1_2_3, Addr_8_8_8_8, BadAddress},
     verbose : {FALSE}]

InitUnit ==
    /\ pc = "call"
    /\ \/ call \in Calls("find_route_matches", RouteArgs)
       \/ call \in Calls("find_nacl_rule_matches", NaclArgs)
       \/ call \in Calls("report_nacl", NaclArgs)
       \/ call \in Calls("find_security_group_matches", PermissionArgs)
       \/ call \in Calls("report_security_groups", SecurityGroupArgs)
       \/ call \in Calls("report_dc_virtual_interfaces", VifArgs)
       \/ call \in Calls("report_route_table", RouteTableArgs)
    /\ aws = NoAws
    /\ ret = None
    /\ main = Idle
    /\ reports = <<>>

Return(r) ==
    /\ ret' = Some(r)
    /\ pc' = "return"
    /\ UNCHANGED <<call, main, reports>>

FindRouteMatches ==
    /\ pc = "call"
    /\ call.fn = "find_route_matches"
    /\ Return(find_route_matches(call.args.routes, call.args.dest_ip_str, call.args.verbose))
    /\ UNCHANGED aws

FindNaclRuleMatches ==
    /\ pc = "call"
    /\ call.fn = "find_nacl_rule_matches"
    /\ Return(find_nacl_rule_matches(call.args.nacl_entries, call.args.dest_ip_str))
    /\ UNCHANGED aws

ReportNacl ==
    /\ pc = "call"
    /\ call.fn = "report_nacl"
    /\ Return(report_nacl([Entries |-> call.args.nacl_entries], Addr_10_2_0_1,
                          call.args.dest_ip_str, FALSE))
    /\ UNCHANGED aws

FindSecurityGroupMatches ==
    /\ pc = "call"
    /\ call.fn = "find_security_group_matches"
    /\ Return(find_security_group_matches(call.args.permissions, call.args.dest_ip_str))
    /\ UNCHANGED aws

ReportSecurityGroups ==
    /\ pc = "call"
    /\ call.fn = "report_security_groups"
    /\ \E groups \in SeqsUpTo(SecurityGroupsAny, MaxGroups) :
        /\ aws' = [NoAws EXCEPT !.SecurityGroups = groups]
        /\ Return(report_security_groups(groups, call.args.source_security_group_ids,
                                         Addr_10_2_0_1, call.args.dest_ip_address, FALSE))

ReportDcVirtualInterfaces ==
    /\ pc = "call"
    /\ call.fn = "report_dc_virtual_interfaces"
    /\ Return(report_dc_virtual_interfaces(call.args.dc_vifs, FALSE))
    /\ UNCHANGED aws

ReportRouteTable ==
    /\ pc = "call"
    /\ call.fn = "report_route_table"
    /\ \E a \in AwsAnswers(NoAws, find_route_matches(call.args.source_route_table.Routes,
                                    call.args.dest_ip_address, call.args.verbose), AnyGateways) :
        /\ aws' = a
        /\ Return(report_route_table(a, call.args.source_route_table, call.args.source_vpc_id,
                                     Addr_10_2_0_1, call.args.dest_ip_address,
                                     call.args.verbose))

NextUnit ==
    \/ FindRouteMatches
    \/ FindNaclRuleMatches
    \/ ReportNacl
    \/ FindSecurityGroupMatches
    \/ ReportSecurityGroups
    \/ ReportDcVirtualInterfaces
    \/ ReportRouteTable

SpecUnit == InitUnit /\ [][NextUnit]_vars

----------------------------------------------------------------------------
(* The account that main runs against: what the describe_* calls of each    *)
(* step can answer                                                          *)

Addr_10_2_1_1 == <<10, 2, 1, 1>>
Addr_10_3_0_1 == <<10, 3, 0, 1>>

Instance(ip, groups) ==
    [InstanceId |-> "i-1", VpcId |-> "vpc-1", SubnetId |-> "subnet-1",
     PrivateIpAddress |-> ip, SecurityGroups |-> groups,
     Tags |-> <<[Key |-> "Name", Value |-> "web"]>>]
Untagged ==
    [InstanceId |-> "i-1", VpcId |-> "vpc-1", SubnetId |-> "subnet-1",
     PrivateIpAddress |-> Addr_10_2_0_1, SecurityGroups |-> <<[GroupId |-> "sg-1"]>>]
TheInstance == Instance(Addr_10_2_0_1, <<[GroupId |-> "sg-1"]>>)
Ec2Reservations ==
    {<<>>,
     <<[Instances |-> <<TheInstance>>]>>,
     <<[Instances |-> <<Instance(Addr_10_2_0_1, <<[GroupId |-> "sg-1"], [GroupId |-> "sg-2"]>>)>>]>>,
     \* the address asked for is a secondary address of the instance
     <<[Instances |-> <<Instance(Addr_10_2_1_1, <<[GroupId |-> "sg-1"]>>)>>]>>,
     <<[Instances |-> <<Untagged>>]>>,
     <<[Instances |-> <<TheInstance, TheInstance>>]>>,
     <<[Instances |-> <<TheInstance>>], [Instances |-> <<TheInstance>>]>>}

GroupSubnet(id, status) == [SubnetIdentifier |-> id, SubnetStatus |-> status]
DBInstance(subnets, group, public) ==
    [DBInstanceIdentifier |-> "db-1",
     DBSubnetGroup |-> [VpcId |-> "vpc-1", Subnets |-> subnets],
     Endpoint |-> [Address |-> "db-1.example"],
     VpcSecurityGroups |-> <<[VpcSecurityGroupId |-> group]>>,
     PubliclyAccessible |-> public]
TwoSubnets == <<GroupSubnet("subnet-1", "Active"), GroupSubnet("subnet-2", "Active")>>
DBInstancesAny ==
    {<<>>,
     <<DBInstance(TwoSubnets, "sg-2", FALSE)>>,
     <<DBInstance(TwoSubnets, "sg-1", FALSE)>>,
     <<DBInstance(TwoSubnets, "sg-2", TRUE)>>,
     <<DBInstance(<<GroupSubnet("subnet-1", "Active"), GroupSubnet("subnet-2", "creating")>>,
                  "sg-2", FALSE)>>,
     <<DBInstance(TwoSubnets, "sg-2", FALSE), DBInstance(TwoSubnets, "sg-2", FALSE)>>}
\* what the endpoint of the database resolves to: nothing, an address of
\* subnet-2, an address of subnet-1, a public address
HostAddresses == {None, Some(Addr_10_2_1_1), Some(Addr_10_2_0_1), Some(Addr_8_8_8_8)}

ReplicationInstance(subnets) ==
    [ReplicationInstanceIdentifier |-> "dms-1",
     ReplicationSubnetGroup |-> [VpcId |-> "vpc-2", Subnets |-> subnets],
     ReplicationInstancePrivateIpAddress |-> Addr_10_3_0_1,
     VpcSecurityGroups |-> <<[VpcSecurityGroupId |-> "sg-3"]>>]
ReplicationInstancesAny ==
    {<<>>,
     <<ReplicationInstance(<<GroupSubnet("subnet-3", "Active")>>)>>,
     <<ReplicationInstance(<<GroupSubnet("subnet-3", "pending")>>)>>,
     <<ReplicationInstance(<<GroupSubnet("subnet-3", "Active")>>),
       ReplicationInstance(<<GroupSubnet("subnet-3", "Active")>>)>>}

AccountSubnets ==
    <<[SubnetId |-> "subnet-1", VpcId |-> "vpc-1", CidrBlock |-> Cidr(10, 2, 0, 0, 24)],
      [SubnetId |-> "subnet-2", VpcId |-> "vpc-1", CidrBlock |-> Cidr(10, 2, 1, 0, 24)],
      [SubnetId |-> "subnet-3", VpcId |-> "vpc-2", CidrBlock |-> Cidr(10, 3, 0, 0, 24)]>>

MainTable(id, vpc, routes) ==
    [RouteTableId |-> id, VpcId |-> vpc, Associations |-> <<[Main |-> TRUE]>>,
     Routes |-> routes]
SubnetTable(id, vpc, subnet, routes) ==
    [RouteTableId |-> id, VpcId |-> vpc,
     Associations |-> <<[Main |-> FALSE, SubnetId |-> subnet]>>, Routes |-> routes]

Route(target, cidr) == WithCidr(target, cidr)
ToIgw == Route([GatewayId |-> igw_1], ALL_IPV4)
\* the route lists a table of the account can hold
AccountRouteLists ==
    {<<>>,
     <<ToIgw>>,
     <<Route([GatewayId |-> local], Cidr(10, 1, 0, 0, 16))>>,
     <<ToIgw, Route([GatewayId |-> local], Cidr(10, 1, 0, 0, 16))>>,
     <<Route([GatewayId |-> vgw_1], Cidr(10, 0, 0, 0, 8)), ToIgw>>,
     <<Route([NatGatewayId |-> "nat-1"], ALL_IPV4),
       Route([VpcPeeringConnectionId |-> "pcx-1"], Cidr(10, 1, 0, 0, 16))>>,
     <<Route([TransitGatewayId |-> "tgw-1"], ALL_IPV4)>>,
     <<[GatewayId |-> igw_1, DestinationIpv6CidrBlock |-> "::/0"]>>,
     <<Route([GatewayId |-> igw_1], BadCidr)>>}

\* the route tables of the account: every subnet on the main table of its
\* VPC; subnet-1 on a table of its own; no main table in vpc-1; two tables
\* associated with subnet-1 and two main tables in vpc-2
AccountRouteTables ==
    {<<MainTable("rtb-1", "vpc-1", routes), MainTable("rtb-2", "vpc-2", routes)>> :
        routes \in AccountRouteLists}
    \cup {<<MainTable("rtb-1", "vpc-1", <<ToIgw>>), MainTable("rtb-2", "vpc-2", <<ToIgw>>),
            SubnetTable("rtb-3", "vpc-1", "subnet-1", routes)>> : routes \in AccountRouteLists}
    \cup {<<MainTable("rtb-2", "vpc-2", <<ToIgw>>),
            SubnetTable("rtb-3", "vpc-1", "subnet-1", <<ToIgw>>)>>,
          <<MainTable("rtb-1", "vpc-1", <<ToIgw>>), MainTable("rtb-2", "vpc-2", <<ToIgw>>),
            MainTable("rtb-4", "vpc-2", <<ToIgw>>),
            SubnetTable("rtb-3", "vpc-1", "subnet-1", <<ToIgw>>),
            SubnetTable("rtb-5", "vpc-1", "subnet-1", <<ToIgw>>)>>}
\* with the routes left aside: the layouts that the subnet-group check sees
AccountRouteTableLayouts ==
    {t \in AccountRouteTables : \A k \in 1..Len(t) : t[k].Routes = <<ToIgw>>}

Nacl(id, subnets, entries) ==
    [NetworkAclId |-> id, Associations |-> [k \in 1..Len(subnets) |-> [SubnetId |-> subnets[k]]],
     Entries |-> entries]
Entry(cidr, egress) == [CidrBlock |-> cidr, Egress |-> egress]
AllowAll == <<Entry(ALL_IPV4, FALSE), Entry(ALL_IPV4, TRUE)>>
AccountEntryLists ==
    {AllowAll,
     <<Entry(ALL_IPV4, FALSE), Entry(Cidr(10, 1, 0, 0, 16), TRUE)>>,
     <<Entry(Cidr(10, 1, 0, 0, 16), FALSE)>>,
     <<>>,
     <<Entry(ALL_IPV4, TRUE), [Ipv6CidrBlock |-> "::/0", Egress |-> FALSE]>>}
\* the NACLs of the account: one for all subnets; one per subnet; none for
\* subnet-1 and subnet-3; two that name subnet-1
AccountNetworkAcls ==
    {<<Nacl("acl-1", <<"subnet-1", "subnet-2", "subnet-3">>, entries)>> :
        entries \in AccountEntryLists}
    \cup {<<Nacl("acl-1", <<"subnet-1">>, entries), Nacl("acl-2", <<"subnet-2">>, entries),
            Nacl("acl-3", <<"subnet-3">>, entries)>> : entries \in AccountEntryLists}
    \cup {<<Nacl("acl-2", <<"subnet-2">>, AllowAll)>>,
          <<Nacl("acl-1", <<"subnet-1", "subnet-3">>, AllowAll),
            Nacl("acl-2", <<"subnet-1", "subnet-2", "subnet-3">>, AllowAll)>>}
AccountNetworkAclLayouts ==
    {n \in AccountNetworkAcls : \A k \in 1..Len(n) : n[k].Entries = AllowAll}

Group(id, ingress, egress) ==
    [GroupId |-> id, IpPermissions |-> ingress, IpPermissionsEgress |-> egress]
ToAll == Perm(<<[CidrIp |-> ALL_IPV4]>>, <<>>, <<>>)
To10_1 == Perm(<<[CidrIp |-> Cidr(10, 1, 0, 0, 16)]>>, <<>>, <<>>)
FromGroup == Perm(<<>>, <<>>, <<[GroupId |-> "sg-9"]>>)
OnlyIpv6 == Perm(<<>>, <<[CidrIpv6 |-> "::/0"]>>, <<>>)
AccountSecurityGroups ==
    {<<Group("sg-1", <<ToAll>>, <<ToAll>>), Group("sg-2", <<ToAll>>, <<ToAll>>),
       Group("sg-3", <<ToAll>>, <<ToAll>>)>>,
     <<Group("sg-1", <<To10_1>>, <<>>), Group("sg-2", <<>>, <<FromGroup>>),
       Group("sg-3", <<OnlyIpv6>>, <<To10_1>>)>>,
     <<Group("sg-1", <<>>, <<ToAll>>), Group("sg-2", <<>>, <<To10_1>>),
       Group("sg-3", <<>>, <<>>)>>,
     <<Group("sg-1", <<>>, <<>>), Group("sg-2", <<>>, <<>>), Group("sg-3", <<>>, <<>>)>>,
     <<Group("sg-1", <<Perm(<<[CidrIp |-> BadCidr]>>, <<>>, <<>>)>>, <<ToAll>>),
       Group("sg-2", <<ToAll>>, <<ToAll>>), Group("sg-3", <<ToAll>>, <<ToAll>>)>>,
     <<Group("sg-2", <<ToAll>>, <<ToAll>>)>>}

AccountGateways ==
    [InternetGateways |->
        {<<>>, <<[Attachments |-> <<[State |-> "available"]>>]>>,
         <<[Attachments |-> <<[State |-> "detached"]>>]>>},
     VpnGateways |->
        {<<[State |-> "available", VpcAttachments |-> <<[State |-> "attached"]>>]>>,
         <<[State |-> "pending", VpcAttachments |-> <<[State |-> "attached"]>>]>>,
         <<[State |-> "available", VpcAttachments |-> <<>>]>>},
     virtualInterfaces |->
        {<<>>, <<Vif("available", <<PeerUp>>, vgw_1)>>,
         <<Vif("available", <<PeerUp>>, vgw_1), Vif("down", <<PeerUp>>, vgw_1)>>},
     NatGateways |-> {<<[State |-> "available"]>>, <<[State |-> "failed"]>>},
     VpcPeeringConnections |->
        {<<[Status |-> [Code |-> "active"], AccepterVpcInfo |-> [VpcId |-> "vpc-1"],
            RequesterVpcInfo |-> [VpcId |-> "vpc-3"]]>>,
         <<[Status |-> [Code |-> "failed"], AccepterVpcInfo |-> [VpcId |-> "vpc-3"],
            RequesterVpcInfo |-> [VpcId |-> "vpc-1"]]>>}]

----------------------------------------------------------------------------
(* Specification of a run of main *)

MainArgs ==
    [verbose : BOOLEAN,
     source_ec2_ip : {NoAddress, Addr_10_2_0_1},
     dest_ip : {Addr_10_1_2_3, Addr_8_8_8_8, BadAddress},
     source_rds : {"", "db-1"},
     source_dms : {"", "dms-1"}]

Init ==
    /\ pc = "ec2"
    /\ \E args \in MainArgs :
        /\ call = [fn |-> "main", args |-> args]
        /\ main = main_start(args)
    /\ aws = NoAws
    /\ ret = None
    /\ reports = <<>>

\* a step of the source part of main, against the client c
SourceStep(m, c, next) ==
    /\ main' = m
    /\ aws' = c
    /\ pc' = IF m.exc # "" THEN "raised" ELSE next
    /\ UNCHANGED <<call, ret, reports>>

\* a report of main: the function called, the client that answered, the
\* result
ReportStep(fn, c, problem, m, next) ==
    /\ call' = [fn |-> fn, args |-> [dest_ip_address |-> main.dest_ip_address,
                                     verbose |-> main.verbose]]
    /\ aws' = c
    /\ ret' = Some(problem)
    /\ reports' = Append(reports, [fn |-> fn, result |-> problem])
    /\ main' = m
    /\ pc' = IF m.exc # "" THEN "raised" ELSE next

MainEc2 ==
    /\ pc = "ec2"
    /\ \E c \in IF main.source_ec2_ip_address = NoAddress THEN {NoAws}
                ELSE {[NoAws EXCEPT !.Reservations = r] : r \in Ec2Reservations} :
        \E m \in {main_ec2(main, c)} : SourceStep(m, c, "rds")

MainRds ==
    /\ pc = "rds"
    /\ \E c \in IF main.source_rds_name = "" THEN {NoAws}
                ELSE {[NoAws EXCEPT !.DBInstances = d, !.hostbyname = h,
                                    !.Subnets = AccountSubnets, !.RouteTables = t,
                                    !.NetworkAcls = n] :
                        d \in DBInstancesAny, h \in HostAddresses,
                        t \in AccountRouteTableLayouts, n \in AccountNetworkAclLayouts} :
        \E m \in {main_rds(main, c)} : SourceStep(m, c, "dms")

MainDms ==
    /\ pc = "dms"
    /\ \E c \in IF main.source_dms_name = "" THEN {NoAws}
                ELSE {[NoAws EXCEPT !.ReplicationInstances = d,
                                    !.Subnets = AccountSubnets, !.RouteTables = t,
                                    !.NetworkAcls = n] :
                        d \in ReplicationInstancesAny,
                        t \in AccountRouteTableLayouts, n \in AccountNetworkAclLayouts} :
        \E m \in {main_dms(main, c)} : SourceStep(m, c, "common")

MainCommon ==
    /\ pc = "common"
    /\ SourceStep(main_common(main), NoAws, "security_groups")

MainSecurityGroups ==
    /\ pc = "security_groups"
    /\ \E g \in AccountSecurityGroups :
        \E c \in {[NoAws EXCEPT !.SecurityGroups = g]} :
            \E problem \in {security_groups_report(main, c)} :
                \E m \in {main_problem(main, problem)} :
                    ReportStep("report_security_groups", c, problem, m, "route_table")

\* the table of the source's subnet, if there is one
source_route_table_of(m, ec2_client) ==
    LET table == get_route_table_for_subnet(ec2_client, m.source_vpc_id[1],
                                            m.source_subnet_id[1], m.verbose)
    IN  IF table.exc # "" THEN None ELSE Some(table.value)

\* the route found in the table, which decides the gateway that is asked for
route_found(m, table) ==
    IF table = None THEN Raise("AssertionError", <<>>)
    ELSE find_route_matches(table[1].Routes, m.dest_ip_address, m.verbose)

MainRouteTable ==
    /\ pc = "route_table"
    /\ \E t \in AccountRouteTables :
        \E base \in {[NoAws EXCEPT !.RouteTables = t]} :
            \E table \in {source_route_table_of(main, base)} :
                \E c \in AwsAnswers(base, route_found(main, table), AccountGateways) :
                    \E problem \in {route_table_report(main, c)} :
                        \E m \in {main_problem(main, problem)} :
                            ReportStep("report_route_table", c, problem,
                                       [m EXCEPT !.source_route_table = table], "nacl")

\* the NACL of the source's subnet, if there is exactly one
source_nacl_of(m, ec2_client) ==
    LET result == get_nacls_for_subnets(ec2_client, <<m.source_subnet_id[1]>>, m.verbose)
    IN  IF Len(result) # 1 THEN None ELSE Some(result[1])

MainNacl ==
    /\ pc = "nacl"
    /\ \E n \in AccountNetworkAcls :
        \E c \in {[NoAws EXCEPT !.NetworkAcls = n]} :
            \E problem \in {nacl_report(main, c)} :
                \E m \in {main_problem(main, problem)} :
                    ReportStep("report_nacl", c, problem,
                               [m EXCEPT !.source_nacl = source_nacl_of(main, c)],
                               "summary")

MainSummary ==
    /\ pc = "summary"
    /\ main' = main_summary(main)
    /\ pc' = "done"
    /\ UNCHANGED <<call, aws, ret, reports>>

Next ==
    \/ MainEc2
    \/ MainRds
    \/ MainDms
    \/ MainCommon
    \/ MainSecurityGroups
    \/ MainRouteTable
    \/ MainNacl
    \/ MainSummary

Spec == Init /\ [][Next]_vars

----------------------------------------------------------------------------
(* Specification of main run twice against one account. The account is      *)
(* fixed when the first run starts: every describe_* call of both runs gets  *)
(* its answer from it. ret keeps how the first run ended.                   *)

HealthyGateways ==
    [InternetGateways |-> <<[Attachments |-> <<[State |-> "available"]>>]>>,
     VpnGateways |-> <<[State |-> "available", VpcAttachments |-> <<[State |-> "attached"]>>]>>,
     virtualInterfaces |-> <<Vif("available", <<PeerUp>>, vgw_1)>>,
     NatGateways |-> <<[State |-> "available"]>>,
     VpcPeeringConnections |->
        <<[Status |-> [Code |-> "active"], AccepterVpcInfo |-> [VpcId |-> "vpc-1"],
           RequesterVpcInfo |-> [VpcId |-> "vpc-3"]]>>]
BrokenGateways ==
    [InternetGateways |-> <<[Attachments |-> <<[State |-> "detached"]>>]>>,
     VpnGateways |-> <<[State |-> "pending", VpcAttachments |-> <<[State |-> "attached"]>>]>>,
     virtualInterfaces |->
        <<Vif("available", <<PeerUp>>, vgw_1), Vif("down", <<PeerDown>>, vgw_1)>>,
     NatGateways |-> <<[State |-> "failed"]>>,
     VpcPeeringConnections |->
        <<[Status |-> [Code |-> "failed"], AccepterVpcInfo |-> [VpcId |-> "vpc-3"],
           RequesterVpcInfo |-> [VpcId |-> "vpc-1"]]>>]

\* the accounts: what every describe_* call answers
Accounts ==
    {[NoAws EXCEPT
        !.Reservations = r,
        !.DBInstances = <<DBInstance(TwoSubnets, "sg-2", public)>>,
        !.hostbyname = Some(Addr_10_2_1_1),
        !.ReplicationInstances = <<ReplicationInstance(<<GroupSubnet("subnet-3", "Active")>>)>>,
        !.Subnets = AccountSubnets,
        !.RouteTables = t,
        !.NetworkAcls = <<Nacl("acl-1", <<"subnet-1", "subnet-2", "subnet-3">>, entries)>>,
        !.SecurityGroups = g,
        !.InternetGateways = gw.InternetGateways,
        !.VpnGateways = gw.VpnGateways,
        !.virtualInterfaces = gw.virtualInterfaces,
        !.NatGateways = gw.NatGateways,
        !.VpcPeeringConnections = gw.VpcPeeringConnections] :
        r \in {<<>>, <<[Instances |-> <<TheInstance>>]>>},
        public \in BOOLEAN,
        t \in AccountRouteTables,
        entries \in {AllowAll, <<Entry(Cidr(10, 1, 0, 0, 16), FALSE)>>},
        g \in {<<Group("sg-1", <<ToAll>>, <<ToAll>>), Group("sg-2", <<ToAll>>, <<ToAll>>),
                 Group("sg-3", <<ToAll>>, <<ToAll>>)>>,
               <<Group("sg-1", <<To10_1>>, <<>>), Group("sg-2", <<>>, <<FromGroup>>),
                 Group("sg-3", <<OnlyIpv6>>, <<To10_1>>)>>},
        gw \in {HealthyGateways, BrokenGateways}}

InitTwice ==
    /\ pc = "start"
    /\ \E args \in MainArgs : call = [fn |-> "main", args |-> args, run |-> 1]
    /\ aws \in Accounts
    /\ ret = None
    /\ main = Idle
    /\ reports = <<>>

\* main(argv) is entered
TwiceStart ==
    /\ pc = "start"
    /\ main' = main_start(call.args)
    /\ pc' = "ec2"
    /\ UNCHANGED <<call, aws, ret, reports>>

\* a step of the source part of main against the account
TwiceSource(at, m, next) ==
    /\ pc = at
    /\ main' = m
    /\ pc' = IF m.exc # "" THEN "raised" ELSE next
    /\ UNCHANGED <<call, aws, ret, reports>>

\* a report of main against the account
TwiceReport(at, fn, problem, m, next) ==
    /\ pc = at
    /\ reports' = Append(reports, [fn |-> fn, result |-> problem])
    /\ main' = m
    /\ pc' = IF m.exc # "" THEN "raised" ELSE next
    /\ UNCHANGED <<call, aws, ret>>

TwiceEc2 ==
    /\ pc = "ec2"
    /\ \E m \in {main_ec2(main, aws)} : TwiceSource("ec2", m, "rds")

TwiceRds ==
    /\ pc = "rds"
    /\ \E m \in {main_rds(main, aws)} : TwiceSource("rds", m, "dms")

TwiceDms ==
    /\ pc = "dms"
    /\ \E m \in {main_dms(main, aws)} : TwiceSource("dms", m, "common")

TwiceCommon ==
    /\ pc = "common"
    /\ \E m \in {main_common(main)} : TwiceSource("common", m, "security_groups")

TwiceSecurityGroups ==
    /\ pc = "security_groups"
    /\ \E problem \in {security_groups_report(main, aws)} :
        \E m \in {main_problem(main, problem)} :
            TwiceReport("security_groups", "report_security_groups", problem, m, "route_table")

TwiceRouteTable ==
    /\ pc = "route_table"
    /\ \E problem \in {route_table_report(main, aws)} :
        \E m \in {main_problem(main, problem)} :
            TwiceReport("route_table", "report_route_table", problem,
                        [m EXCEPT !.source_route_table = source_route_table_of(main, aws)],
                        "nacl")

TwiceNacl ==
    /\ pc = "nacl"
    /\ \E problem \in {nacl_report(main, aws)} :
        \E m \in {main_problem(main, problem)} :
            TwiceReport("nacl", "report_nacl", problem,
                        [m EXCEPT !.source_nacl = source_nacl_of(main, aws)], "summary")

TwiceSummary ==
    /\ pc = "summary"
    /\ main' = main_summary(main)
    /\ pc' = "done"
    /\ UNCHANGED <<call, aws, ret, reports>>

\* the first run has ended, with the summary or with an exception: the
\* program is run again on the same arguments, or on the same but for verbose
Again ==
    /\ pc \in {"done", "raised"}
    /\ call.run = 1
    /\ ret' = Some([args |-> call.args, pc |-> pc, main |-> main, reports |-> reports])
    /\ \E verbose \in BOOLEAN :
        call' = [call EXCEPT !.run = 2, !.args.verbose = verbose]
    /\ reports' = <<>>
    /\ pc' = "start"
    /\ UNCHANGED <<aws, main>>

NextTwice ==
    \/ TwiceStart
    \/ TwiceEc2
    \/ TwiceRds
    \/ TwiceDms
    \/ TwiceCommon
    \/ TwiceSecurityGroups
    \/ TwiceRouteTable
    \/ TwiceNacl
    \/ TwiceSummary
    \/ Again

SpecTwice == InitTwice /\ [][NextTwice]_vars

----------------------------------------------------------------------------
(* Specification of the route-table lookups, each called on its own against *)
(* an account whose route tables are some of a pool: main tables of vpc-1   *)
(* (two) and vpc-2, tables associated with subnet-1 (two), with subnet-2,   *)
(* and with both                                                            *)

MaxSubnetIds == 3

SharedTable(id, vpc, subnets) ==
    [RouteTableId |-> id, VpcId |-> vpc,
     Associations |-> [k \in 1..Len(subnets) |-> [Main |-> FALSE, SubnetId |-> subnets[k]]],
     Routes |-> <<ToIgw>>]

TablePool ==
    <<MainTable("rtb-1", "vpc-1", <<ToIgw>>),
      MainTable("rtb-2", "vpc-2", <<ToIgw>>),
      SubnetTable("rtb-3", "vpc-1", "subnet-1", <<ToIgw>>),
      MainTable("rtb-4", "vpc-1", <<ToIgw>>),
      SubnetTable("rtb-5", "vpc-1", "subnet-1", <<ToIgw>>),
      SubnetTable("rtb-6", "vpc-1", "subnet-2", <<ToIgw>>),
      SharedTable("rtb-7", "vpc-1", <<"subnet-1", "subnet-2">>)>>

\* what describe_route_tables can hold: the tables of the pool, in its order
TableLayouts ==
    {SelectSeq(TablePool, LAMBDA t : t.RouteTableId \in ids) :
        ids \in SUBSET {TablePool[k].RouteTableId : k \in 1..Len(TablePool)}}

SubnetIds == {"subnet-1", "subnet-2", "subnet-3"}

TableArgs == [vpc_id : {"vpc-1", "vpc-2"}, subnet_id : SubnetIds]
TablesArgs == [vpc_id : {"vpc-1", "vpc-2"}, list_subnet_ids : SeqsUpTo(SubnetIds, MaxSubnetIds)]

InitTables ==
    /\ pc = "call"
    /\ \/ call \in Calls("get_route_table_for_subnet", TableArgs)
       \/ call \in Calls("get_route_tables_for_subnets", TablesArgs)
    /\ aws \in {[NoAws EXCEPT !.RouteTables = t] : t \in TableLayouts}
    /\ ret = None
    /\ main = Idle
    /\ reports = <<>>

GetRouteTableForSubnet ==
    /\ pc = "call"
    /\ call.fn = "get_route_table_for_subnet"
    /\ Return(get_route_table_for_subnet(aws, call.args.vpc_id, call.args.subnet_id, FALSE))
    /\ UNCHANGED aws

GetRouteTablesForSubnets ==
    /\ pc = "call"
    /\ call.fn = "get_route_tables_for_subnets"
    /\ Return(get_route_tables_for_subnets(aws, call.args.vpc_id, call.args.list_subnet_ids,
                                           FALSE))
    /\ UNCHANGED aws

NextTables ==
    \/ GetRouteTableForSubnet
    \/ GetRouteTablesForSubnets

SpecTables == InitTables /\ [][NextTables]_vars

----------------------------------------------------------------------------
(* What the properties are stated with *)

\* bit k (1 the most significant, 32 the least) of an address
Bit(a, k) == (a[((k - 1) \div 8) + 1] \div Pow2(7 - ((k - 1) % 8))) % 2

\* the CIDR block c contains the address a: they agree on the first
\* prefixlen bits
Covers(c, a) == \A k \in 1..c.prefixlen : Bit(a, k) = Bit(c.addr, k)

RECURSIVE Count(_, _)
Count(seq, line) ==
    IF seq = <<>> THEN 0
    ELSE (IF Head(seq) = line THEN 1 ELSE 0) + Count(Tail(seq), line)

Printed(r, line) == \E k \in 1..Len(r.out) : r.out[k] = line

\* the function fn has returned without raising
Returned(fn) == pc = "return" /\ call.fn = fn /\ ret[1].exc = ""

HasCidr(r) == "DestinationCidrBlock" \in DOMAIN r

\* the indices of the routes whose destination CIDR contains dest
Containing(routes, dest) ==
    {i \in 1..Len(routes) : HasCidr(routes[i]) /\ Covers(routes[i].DestinationCidrBlock, dest)}

----------------------------------------------------------------------------
(* C1: find_route_matches returns a route whose destination CIDR contains   *)
(* the destination and whose prefix length is at least that of every other  *)
(* route containing it (None when no route contains it); a route without a  *)
(* destination CIDR is never returned, and removing such routes from the    *)
(* sequence does not change the result.                                     *)
C1_LongestPrefixMatch ==
    Returned("find_route_matches") =>
        LET routes == call.args.routes
            dest == call.args.dest_ip_str
            value == ret[1].value
            among == Containing(routes, dest)
        IN  /\ among = {} => value = None
            /\ among # {} =>
                \E i \in among :
                    /\ value = Some(routes[i])
                    /\ \A j \in among : routes[i].DestinationCidrBlock.prefixlen
                                            >= routes[j].DestinationCidrBlock.prefixlen
            /\ value # None => HasCidr(value[1])
            /\ value = find_route_matches(SelectSeq(routes, HasCidr), dest,
                                          call.args.verbose).value

\* the /16 route wins over the /8 route before it, next to a route that has
\* no destination CIDR
C1_Witness ==
    /\ Returned("find_route_matches")
    /\ Len(call.args.routes) = 3
    /\ call.args.dest_ip_str = Addr_10_1_2_3
    /\ HasCidr(call.args.routes[1])
    /\ call.args.routes[1].DestinationCidrBlock = Cidr(10, 0, 0, 0, 8)
    /\ HasCidr(call.args.routes[2])
    /\ call.args.routes[2].DestinationCidrBlock = Cidr(10, 1, 0, 0, 16)
    /\ ~HasCidr(call.args.routes[3])
    /\ ret[1].value = Some(call.args.routes[2])

----------------------------------------------------------------------------
(* C6: find_security_group_matches returns exactly the permissions, in      *)
(* their order, that have a CIDR range containing the destination (a range  *)
(* equal to 0.0.0.0/0 contains every destination) or that carry a           *)
(* peer-group reference.                                                    *)

RangeMatches(p, dest) ==
    \E k \in 1..Len(p.IpRanges) :
        p.IpRanges[k].CidrIp = ALL_IPV4 \/ Covers(p.IpRanges[k].CidrIp, dest)

PermissionMatches(p, dest) == RangeMatches(p, dest) \/ Len(p.UserIdGroupPairs) > 0

C6_SecurityGroupMatches ==
    Returned("find_security_group_matches") =>
        ret[1].value = SelectSeq(call.args.permissions,
                                 LAMBDA p : PermissionMatches(p, call.args.dest_ip_str))

\* a permission with only a peer-group reference is returned for a
\* destination that no range of any permission contains
C6_Witness ==
    /\ Returned("find_security_group_matches")
    /\ Len(call.args.permissions) = 2
    /\ call.args.permissions[1].IpRanges = <<[CidrIp |-> Cidr(10, 1, 0, 0, 16)]>>
    /\ call.args.permissions[1].UserIdGroupPairs = <<>>
    /\ call.args.permissions[2].IpRanges = <<>>
    /\ call.args.permissions[2].UserIdGroupPairs # <<>>
    /\ call.args.dest_ip_str = Addr_8_8_8_8
    /\ ret[1].value = <<call.args.permissions[2]>>

----------------------------------------------------------------------------
(* C7: report_security_groups reports a problem iff, over all permissions   *)
(* of all security groups of the source, no ingress permission matches the  *)
(* destination or no egress permission matches it; each direction gets its  *)
(* own error line, whatever the other direction holds.                      *)

NoneMatches(groups, dest, key) ==
    \A g \in 1..Len(groups) :
        \A k \in 1..Len(groups[g][key]) : ~PermissionMatches(groups[g][key][k], dest)

C7_SecurityGroupProblem ==
    Returned("report_security_groups") =>
        LET no_ingress == NoneMatches(aws.SecurityGroups, call.args.dest_ip_address,
                                      "IpPermissions")
            no_egress == NoneMatches(aws.SecurityGroups, call.args.dest_ip_address,
                                     "IpPermissionsEgress")
        IN  /\ ret[1].value = (no_ingress \/ no_egress)
            /\ Printed(ret[1], NoIngress) = no_ingress
            /\ Printed(ret[1], NoEgress) = no_egress

\* two groups, ingress matches in one of them, egress in none
C7_Witness ==
    /\ Returned("report_security_groups")
    /\ Len(aws.SecurityGroups) = 2
    /\ ~NoneMatches(aws.SecurityGroups, call.args.dest_ip_address, "IpPermissions")
    /\ NoneMatches(<<aws.SecurityGroups[1]>>, call.args.dest_ip_address, "IpPermissions")
    /\ aws.SecurityGroups[2].IpPermissionsEgress # <<>>
    /\ NoneMatches(aws.SecurityGroups, call.args.dest_ip_address, "IpPermissionsEgress")
    /\ ret[1].value = TRUE
    /\ ~Printed(ret[1], NoIngress)

----------------------------------------------------------------------------
(* C8: find_nacl_rule_matches returns (inbound, outbound): the entries      *)
(* whose CIDR contains the destination, Egress false in inbound and Egress  *)
(* true in outbound; report_nacl reports a problem iff one of the two is    *)
(* empty, with an error line for each empty direction.                      *)

Relevant(entries, dest, egress) ==
    SelectSeq(entries, LAMBDA e : Covers(e.CidrBlock, dest) /\ e.Egress = egress)

C8_NaclMatches ==
    /\ Returned("find_nacl_rule_matches") =>
        /\ ret[1].value[1] = Relevant(call.args.nacl_entries, call.args.dest_ip_str, FALSE)
        /\ ret[1].value[2] = Relevant(call.args.nacl_entries, call.args.dest_ip_str, TRUE)
    /\ Returned("report_nacl") =>
        LET inbound == Relevant(call.args.nacl_entries, call.args.dest_ip_str, FALSE)
            outbound == Relevant(call.args.nacl_entries, call.args.dest_ip_str, TRUE)
        IN  /\ ret[1].value = (inbound = <<>> \/ outbound = <<>>)
            /\ Printed(ret[1], NoInbound) = (inbound = <<>>)
            /\ Printed(ret[1], NoOutbound) = (outbound = <<>>)

\* a NACL with a relevant inbound entry only: a problem in one direction
C8_Witness ==
    /\ Returned("report_nacl")
    /\ Len(call.args.nacl_entries) = 3
    /\ Relevant(call.args.nacl_entries, call.args.dest_ip_str, FALSE) # <<>>
    /\ Relevant(call.args.nacl_entries, call.args.dest_ip_str, TRUE) = <<>>
    /\ \E k \in 1..3 : call.args.nacl_entries[k].Egress
    /\ ret[1].value = TRUE
    /\ ret[1].out = <<NoOutbound>>

----------------------------------------------------------------------------
(* C9: report_dc_virtual_interfaces reports a problem when the list is      *)
(* empty; otherwise iff some interface is not "available" or some BGP peer  *)
(* is not both "available" and "up". Every interface and every peer gets    *)
(* its line: one per interface that is not available, one per peer (issue   *)
(* or OK), one OK line per interface without any problem.                   *)

PeerOk(b) == b.bgpStatus = "up" /\ b.bgpPeerState = "available"
VifHealthy(i) ==
    /\ i.virtualInterfaceState = "available"
    /\ \A k \in 1..Len(i.bgpPeers) : PeerOk(i.bgpPeers[k])

RECURSIVE Peers(_)
Peers(vifs) == IF vifs = <<>> THEN <<>> ELSE Head(vifs).bgpPeers \o Peers(Tail(vifs))

VifVerdict(dc_vifs, r) ==
    /\ r.value = (dc_vifs = <<>> \/ \E n \in 1..Len(dc_vifs) : ~VifHealthy(dc_vifs[n]))
    /\ Printed(r, NoVifs) = (dc_vifs = <<>>)
    /\ Count(r.out, VifNotAvailable)
        = Len(SelectSeq(dc_vifs, LAMBDA i : i.virtualInterfaceState # "available"))
    /\ Count(r.out, BgpPeerIssue) = Len(SelectSeq(Peers(dc_vifs), LAMBDA b : ~PeerOk(b)))
    /\ Count(r.out, BgpPeerOk) = Len(SelectSeq(Peers(dc_vifs), PeerOk))
    /\ Count(r.out, VifOk) = Len(SelectSeq(dc_vifs, VifHealthy))

C9_VirtualInterfaces ==
    Returned("report_dc_virtual_interfaces") => VifVerdict(call.args.dc_vifs, ret[1])

\* the first interface is down, and the interfaces after it are still
\* examined: a peer issue of the second and the health of the third are
\* printed
C9_Witness ==
    /\ Returned("report_dc_virtual_interfaces")
    /\ Len(call.args.dc_vifs) = 3
    /\ call.args.dc_vifs[1].virtualInterfaceState = "down"
    /\ call.args.dc_vifs[2].virtualInterfaceState = "available"
    /\ ~VifHealthy(call.args.dc_vifs[2])
    /\ VifHealthy(call.args.dc_vifs[3])
    /\ call.args.dc_vifs[3].bgpPeers # <<>>
    /\ ret[1].value = TRUE
    /\ Count(ret[1].out, VifOk) = 1
    /\ Count(ret[1].out, BgpPeerIssue) = 1

----------------------------------------------------------------------------
(* The route that report_route_table resolves, and its kind *)

\* the call of report_route_table has returned without raising
ReportedRoute == Returned("report_route_table")

Resolved ==
    find_route_matches(call.args.source_route_table.Routes, call.args.dest_ip_address,
                       call.args.verbose).value

IsIgw(r) == "GatewayId" \in DOMAIN r /\ StartsWith(r.GatewayId, <<"i", "g", "w", "-">>)
IsVgw(r) == "GatewayId" \in DOMAIN r /\ StartsWith(r.GatewayId, <<"v", "g", "w", "-">>)
IsOtherGateway(r) == "GatewayId" \in DOMAIN r /\ ~IsIgw(r) /\ ~IsVgw(r)
IsNat(r) == "GatewayId" \notin DOMAIN r /\ "NatGatewayId" \in DOMAIN r
IsPeering(r) ==
    /\ "GatewayId" \notin DOMAIN r
    /\ "NatGatewayId" \notin DOMAIN r
    /\ "VpcPeeringConnectionId" \in DOMAIN r
\* none of the three keys the analysis knows
IsUnknownType(r) ==
    DOMAIN r \cap {"GatewayId", "NatGatewayId", "VpcPeeringConnectionId"} = {}

\* the route resolved goes through a virtual private gateway
ViaVgw == ReportedRoute /\ Resolved # None /\ IsVgw(Resolved[1])

VgwValid ==
    /\ aws.VpnGateways[1].State = "available"
    /\ aws.VpnGateways[1].VpcAttachments[1].State = "attached"

\* the interfaces bound to the gateway of the route
BoundVifs ==
    SelectSeq(aws.virtualInterfaces, LAMBDA i : i.virtualGatewayId = Resolved[1].GatewayId)

----------------------------------------------------------------------------
(* C2, as claimed: whenever the resolved route's target is not an internet  *)
(* gateway, virtual private gateway, NAT gateway or peering connection      *)
(* (a GatewayId that is neither igw- nor vgw-prefixed included), the        *)
(* route-table analysis reports a problem.                                  *)
C2_AsClaimed ==
    (ReportedRoute /\ Resolved # None
        /\ (IsUnknownType(Resolved[1]) \/ IsOtherGateway(Resolved[1])))
    => ret[1].value = TRUE

(* C2, amended: a resolved route with none of the keys GatewayId,           *)
(* NatGatewayId, VpcPeeringConnectionId is reported as a problem ("Unknown  *)
(* route type"); a resolved route whose GatewayId is neither igw- nor       *)
(* vgw-prefixed gets the warning that this type of gateway is not analysed, *)
(* no AWS call, and no problem.                                             *)
C2_UnknownTarget ==
    (ReportedRoute /\ Resolved # None) =>
        /\ IsUnknownType(Resolved[1]) =>
            /\ ret[1].value = TRUE
            /\ Printed(ret[1], UnknownRouteType)
            /\ ret[1].api = <<>>
        /\ IsOtherGateway(Resolved[1]) =>
            /\ ret[1].value = FALSE
            /\ Printed(ret[1], OtherGateway)
            /\ ~Printed(ret[1], UnknownRouteType)
            /\ ret[1].api = <<>>

\* the destination is routed to the gateway "local", and the analysis
\* returns "no problem"
C2_Witness ==
    /\ ReportedRoute
    /\ Resolved # None
    /\ IsOtherGateway(Resolved[1])
    /\ Resolved[1].GatewayId = local
    /\ ret[1].value = FALSE
    /\ Printed(ret[1], OtherGateway)

----------------------------------------------------------------------------
(* C3, as claimed: for a route through a virtual private gateway that is    *)
(* not valid (state "available", attachment "attached"), the virtual        *)
(* interfaces are not fetched, no virtual-interface check is run and no     *)
(* virtual-interface problem is reported.                                   *)

VifLines == {CheckingVifs, NoVifs, VifNotAvailable, BgpPeerIssue, BgpPeerOk, VifOk}

C3_AsClaimed ==
    (ViaVgw /\ ~VgwValid) =>
        /\ \A k \in 1..Len(ret[1].api) : ret[1].api[k] # "describe_virtual_interfaces"
        /\ \A k \in 1..Len(ret[1].out) : ret[1].out[k] \notin VifLines

(* C3, amended: for a route through a virtual private gateway, the virtual  *)
(* interfaces bound to it are fetched and evaluated after the gateway's own *)
(* checks whether or not the gateway is valid; what that evaluation prints  *)
(* ends the report, and its problem is reported next to the gateway's.      *)
C3_VifsAlwaysChecked ==
    ViaVgw =>
        LET vifs == report_dc_virtual_interfaces(BoundVifs, call.args.verbose)
            n == Len(ret[1].out) - Len(vifs.out)
        IN  /\ ret[1].api = <<"describe_vpn_gateways", "describe_virtual_interfaces">>
            /\ n >= 0
            /\ SubSeq(ret[1].out, n + 1, Len(ret[1].out)) = vifs.out
            /\ \A k \in 1..n : ret[1].out[k] \notin VifLines
            /\ ret[1].value = (~VgwValid \/ vifs.value)

\* the gateway is not available, and an interface that is down is reported
C3_Witness ==
    /\ ViaVgw
    /\ aws.VpnGateways[1].State # "available"
    /\ BoundVifs # <<>>
    /\ Printed(ret[1], VgwNotAvailable)
    /\ Printed(ret[1], CheckingVifs)
    /\ Printed(ret[1], VifNotAvailable)

----------------------------------------------------------------------------
(* C10, as claimed: the gateway is reported as a problem iff its state is   *)
(* not "available" or its attachment is not "attached", and a gateway that  *)
(* is available and attached with at least one healthy virtual interface    *)
(* yields no problem from the route-table analysis.                         *)
C10_AsClaimed ==
    ViaVgw =>
        /\ (Printed(ret[1], VgwNotAvailable) \/ Printed(ret[1], VgwNotAttached)) = ~VgwValid
        /\ (VgwValid /\ \E n \in 1..Len(BoundVifs) : VifHealthy(BoundVifs[n]))
            => ret[1].value = FALSE

(* C10, amended: the gateway is reported as not available iff its state is  *)
(* not "available", and as not attached iff its attachment state is not     *)
(* "attached" (both are checked); a gateway that is available and attached  *)
(* yields no problem iff it has at least one virtual interface and all its  *)
(* virtual interfaces are healthy.                                          *)
C10_VpnGateway ==
    ViaVgw =>
        /\ Printed(ret[1], VgwNotAvailable) = (aws.VpnGateways[1].State # "available")
        /\ Printed(ret[1], VgwNotAttached)
            = (aws.VpnGateways[1].VpcAttachments[1].State # "attached")
        /\ ~VgwValid => ret[1].value = TRUE
        /\ VgwValid =>
            (ret[1].value = FALSE) =
                (BoundVifs # <<>> /\ \A n \in 1..Len(BoundVifs) : VifHealthy(BoundVifs[n]))

\* a gateway neither available nor attached gets both error lines
C10_Witness ==
    /\ ViaVgw
    /\ aws.VpnGateways[1].State # "available"
    /\ aws.VpnGateways[1].VpcAttachments[1].State # "attached"
    /\ Printed(ret[1], VgwNotAvailable)
    /\ Printed(ret[1], VgwNotAttached)
    /\ ret[1].value = TRUE

----------------------------------------------------------------------------
(* A run of main: the reports it made *)

Analyses == <<"report_security_groups", "report_route_table", "report_nacl">>

\* the run completed: the summary is printed
Completed == pc = "done"

\* the last report made, if it is the one of fn
LastReport(fn) == Len(reports) > 0 /\ reports[Len(reports)].fn = fn

----------------------------------------------------------------------------
(* C4: at the end of a completed run the overall problem flag is true iff   *)
(* at least one of the security-group, route-table and NACL analyses        *)
(* reported a problem, and the summary says so; the three analyses run in   *)
(* every completed run, in this order, whatever the earlier ones reported:  *)
(* after an analysis has returned, the next one runs, and a run stops       *)
(* between analyses only on an exception.                                   *)
C4_ProblemIsOrOfAnalyses ==
    /\ Completed =>
        /\ Len(reports) = 3
        /\ \A k \in 1..3 : reports[k].fn = Analyses[k] /\ reports[k].result.exc = ""
        /\ main.network_problem_exists = (\E k \in 1..3 : reports[k].result.value)
        /\ main.out[Len(main.out)] =
                IF \E k \in 1..3 : reports[k].result.value THEN SummaryError ELSE SummaryOk
    /\ pc \in {"route_table", "nacl", "summary"} =>
        /\ Len(reports) = (CASE pc = "route_table" -> 1 [] pc = "nacl" -> 2 [] OTHER -> 3)
        /\ reports[Len(reports)].result.exc = ""
    /\ (pc = "raised" /\ Len(reports) > 0) => reports[Len(reports)].result.exc # ""

\* a completed run in which only the first analysis reported a problem
C4_Witness ==
    /\ Completed
    /\ reports[1].result.value = TRUE
    /\ reports[2].result.value = FALSE
    /\ reports[3].result.value = FALSE
    /\ main.network_problem_exists

----------------------------------------------------------------------------
(* C5: if no route of the source's route table has a destination CIDR that  *)
(* contains the destination address, find_route_matches returns None, the   *)
(* route-table analysis reports a problem ("No route found") without        *)
(* calling any gateway API, and the overall problem flag is true from then  *)
(* on, up to the summary of the run.                                        *)
NoRouteContains ==
    /\ main.source_route_table # None
    /\ IsAddress(main.dest_ip_address)
    /\ \A k \in 1..Len(main.source_route_table[1].Routes) :
            HasCidr(main.source_route_table[1].Routes[k])
                => IsNetwork(main.source_route_table[1].Routes[k].DestinationCidrBlock)
    /\ Containing(main.source_route_table[1].Routes, main.dest_ip_address) = {}

C5_NoRouteIsProblem ==
    /\ (LastReport("report_route_table") /\ NoRouteContains) =>
        /\ find_route_matches(main.source_route_table[1].Routes, main.dest_ip_address,
                              main.verbose).value = None
        /\ ret[1].exc = ""
        /\ ret[1].value = TRUE
        /\ Printed(ret[1], NoRoute)
        /\ ret[1].api = <<>>
        /\ aws.InternetGateways = <<>> /\ aws.VpnGateways = <<>> /\ aws.NatGateways = <<>>
        /\ aws.VpcPeeringConnections = <<>> /\ aws.virtualInterfaces = <<>>
        /\ main.network_problem_exists
    /\ (pc \in {"nacl", "summary", "done"} /\ NoRouteContains) =>
        /\ reports[2].result.value = TRUE
        /\ main.network_problem_exists
    /\ (Completed /\ NoRouteContains) => main.out[Len(main.out)] = SummaryError

\* a completed run whose route table has routes, none of them containing
\* the destination, and in which the other two analyses found no problem
C5_Witness ==
    /\ Completed
    /\ NoRouteContains
    /\ main.source_route_table[1].Routes # <<>>
    /\ reports[1].result.value = FALSE
    /\ reports[3].result.value = FALSE
    /\ main.network_problem_exists

----------------------------------------------------------------------------
(* The calls of report_route_table that resolve a route, raising or not *)

\* the call of report_route_table has ended, by a return or by an exception
RouteTableCallEnded == pc = "return" /\ call.fn = "report_route_table"

\* a route was resolved for a destination that parses
RouteResolved ==
    /\ RouteTableCallEnded
    /\ IsAddress(call.args.dest_ip_address)
    /\ Resolved # None

ViaIgw == RouteResolved /\ IsIgw(Resolved[1])
ViaNat == RouteResolved /\ IsNat(Resolved[1])
ViaPeering == RouteResolved /\ IsPeering(Resolved[1])

----------------------------------------------------------------------------
(* C11: for a route to an internet gateway whose record has exactly one     *)
(* attachment, the route-table analysis reports a problem iff the state of  *)
(* that attachment is not "available" (and prints the matching line); if    *)
(* the record has no attachment or more than one, the analysis ends with an *)
(* AssertionError and returns no result.                                    *)
C11_InternetGateway ==
    (ViaIgw /\ Len(aws.InternetGateways) = 1) =>
        LET Attachments == aws.InternetGateways[1].Attachments
        IN  /\ ret[1].api = <<"describe_internet_gateways">>
            /\ Len(Attachments) = 1 =>
                /\ ret[1].exc = ""
                /\ ret[1].value = (Attachments[1].State # "available")
                /\ Printed(ret[1], IgwNotAttached) = (Attachments[1].State # "available")
                /\ Printed(ret[1], IgwOk) = (Attachments[1].State = "available")
            /\ Len(Attachments) # 1 =>
                /\ ret[1].exc = "AssertionError"
                /\ ret[1].value = None
                /\ ~Printed(ret[1], IgwNotAttached)
                /\ ~Printed(ret[1], IgwOk)

\* the gateway has no attachment and the analysis is aborted
C11_Witness ==
    /\ ViaIgw
    /\ Len(aws.InternetGateways) = 1
    /\ aws.InternetGateways[1].Attachments = <<>>
    /\ ret[1].exc = "AssertionError"

----------------------------------------------------------------------------
(* C12: for a route to a peering connection, the route-table analysis       *)
(* reports a problem iff the status code of the connection is not "active". *)
(* The VPC surfaced as the destination side is the requester's when the     *)
(* source VPC is the accepter, and the accepter's otherwise; the result     *)
(* depends on the status code alone, whichever side is surfaced.            *)
C12_PeeringConnection ==
    (ViaPeering /\ Len(aws.VpcPeeringConnections) = 1) =>
        LET pcx == aws.VpcPeeringConnections[1]
            n == Len(ret[1].out)
        IN  /\ ret[1].exc = ""
            /\ ret[1].api = <<"describe_vpc_peering_connections">>
            /\ ret[1].value = (pcx.Status.Code # "active")
            /\ Printed(ret[1], PeeringNotActive) = (pcx.Status.Code # "active")
            /\ n >= 2
            /\ ret[1].out[n - 1] = DestinationPeeringInfo
            /\ ret[1].out[n] = IF pcx.AccepterVpcInfo.VpcId = call.args.source_vpc_id
                               THEN pcx.RequesterVpcInfo.VpcId
                               ELSE pcx.AccepterVpcInfo.VpcId

\* the source is the accepter of an active connection: the requester's VPC
\* is surfaced and there is no problem
C12_Witness ==
    /\ ViaPeering
    /\ Len(aws.VpcPeeringConnections) = 1
    /\ aws.VpcPeeringConnections[1].Status.Code = "active"
    /\ aws.VpcPeeringConnections[1].AccepterVpcInfo.VpcId = call.args.source_vpc_id
    /\ aws.VpcPeeringConnections[1].RequesterVpcInfo.VpcId # call.args.source_vpc_id
    /\ ret[1].out[Len(ret[1].out)] = aws.VpcPeeringConnections[1].RequesterVpcInfo.VpcId
    /\ ret[1].value = FALSE

----------------------------------------------------------------------------
(* C13: for a route to a NAT gateway, the route-table analysis reports a    *)
(* problem iff the state of the NAT gateway is not "available", and prints  *)
(* the error line exactly then.                                             *)
C13_NatGateway ==
    (ViaNat /\ Len(aws.NatGateways) = 1) =>
        /\ ret[1].exc = ""
        /\ ret[1].api = <<"describe_nat_gateways">>
        /\ ret[1].value = (aws.NatGateways[1].State # "available")
        /\ Printed(ret[1], NatNotAvailable) = (aws.NatGateways[1].State # "available")

\* the NAT gateway has failed and the analysis reports a problem
C13_Witness ==
    /\ ViaNat
    /\ Len(aws.NatGateways) = 1
    /\ aws.NatGateways[1].State = "failed"
    /\ ret[1].value = TRUE

----------------------------------------------------------------------------
(* C14: when several routes containing the destination share the greatest   *)
(* prefix length, find_route_matches returns the one that comes first in    *)
(* the sequence: the route returned is the one at the least index among the *)
(* containing routes of greatest prefix length, so a later route of equal   *)
(* prefix length never replaces an earlier one.                             *)

\* the indices of the containing routes whose prefix length is the greatest
Longest(routes, dest) ==
    {i \in Containing(routes, dest) :
        \A j \in Containing(routes, dest) :
            routes[i].DestinationCidrBlock.prefixlen >= routes[j].DestinationCidrBlock.prefixlen}

C14_FirstOfEqualPrefix ==
    (Returned("find_route_matches") /\ Longest(call.args.routes, call.args.dest_ip_str) # {}) =>
        LET longest == Longest(call.args.routes, call.args.dest_ip_str)
            first == CHOOSE i \in longest : \A j \in longest : i <= j
        IN  /\ ret[1].value = Some(call.args.routes[first])
            /\ \A j \in longest :
                call.args.routes[j] # call.args.routes[first] =>
                    ret[1].value # Some(call.args.routes[j])

\* two different routes with the same CIDR after a shorter one: the first of
\* the two is returned
C14_Witness ==
    /\ Returned("find_route_matches")
    /\ Len(call.args.routes) = 3
    /\ Longest(call.args.routes, call.args.dest_ip_str) = {2, 3}
    /\ call.args.routes[2] # call.args.routes[3]
    /\ ret[1].value = Some(call.args.routes[2])

----------------------------------------------------------------------------
(* C15: IPv6 ranges and prefix-list references never affect whether a       *)
(* permission is returned by find_security_group_matches: the call on the   *)
(* permissions and the call on the same permissions without their IPv6      *)
(* ranges and prefix lists end the same way and return the permissions at   *)
(* the same places; what their presence adds is one warning line each, and  *)
(* the result of report_security_groups is the same with and without them.  *)

Ipv6Warning == "WARNING. Ignoring IPv6 rules in Security Group."
PrefixListWarning == "WARNING. Ignoring Perfix List rules in Security Group."

\* the permission, and the permissions, without IPv6 ranges and prefix lists
Ipv4Only(p) == [p EXCEPT !.Ipv6Ranges = <<>>, !.PrefixListIds = <<>>]
AllIpv4Only(permissions) == [k \in 1..Len(permissions) |-> Ipv4Only(permissions[k])]
GroupsIpv4Only(groups) ==
    [k \in 1..Len(groups) |->
        [groups[k] EXCEPT !.IpPermissions = AllIpv4Only(@),
                          !.IpPermissionsEgress = AllIpv4Only(@)]]

C15_Ipv6AndPrefixListsIgnored ==
    /\ (pc = "return" /\ call.fn = "find_security_group_matches") =>
        LET permissions == call.args.permissions
            other == find_security_group_matches(AllIpv4Only(permissions),
                                                 call.args.dest_ip_str)
        IN  /\ ret[1].exc = other.exc
            /\ ret[1].exc = "" =>
                /\ AllIpv4Only(ret[1].value) = other.value
                /\ \A k \in 1..Len(permissions) :
                    (\E n \in 1..Len(ret[1].value) : ret[1].value[n] = permissions[k])
                        = PermissionMatches(Ipv4Only(permissions[k]), call.args.dest_ip_str)
                /\ other.out = <<>>
                /\ \A n \in 1..Len(ret[1].out) :
                    ret[1].out[n] \in {Ipv6Warning, PrefixListWarning}
                /\ Count(ret[1].out, Ipv6Warning)
                    = Len(SelectSeq(permissions, LAMBDA p : p.Ipv6Ranges # <<>>))
                /\ Count(ret[1].out, PrefixListWarning)
                    = Len(SelectSeq(permissions, LAMBDA p : p.PrefixListIds # <<>>))
    /\ (pc = "return" /\ call.fn = "report_security_groups") =>
        LET other == report_security_groups(GroupsIpv4Only(aws.SecurityGroups),
                        call.args.source_security_group_ids, Addr_10_2_0_1,
                        call.args.dest_ip_address, FALSE)
        IN  /\ ret[1].exc = other.exc
            /\ ret[1].value = other.value

\* a permission with an IPv6 range and a prefix list, no range containing the
\* destination and no peer group: two warnings, and it is not returned
C15_Witness ==
    /\ Returned("find_security_group_matches")
    /\ Len(call.args.permissions) = 1
    /\ call.args.permissions[1].Ipv6Ranges # <<>>
    /\ call.args.permissions[1].PrefixListIds # <<>>
    /\ call.args.permissions[1].IpRanges # <<>>
    /\ ret[1].value = <<>>
    /\ ret[1].out = <<Ipv6Warning, PrefixListWarning>>

----------------------------------------------------------------------------
(* A run of main: the subnet group of an RDS or DMS source *)

\* the RDS step, or the DMS step, has just processed an instance it found
RdsProcessed == pc = "dms" /\ main.source_rds_name # "" /\ Len(aws.DBInstances) = 1
DmsProcessed ==
    pc = "common" /\ main.source_dms_name # "" /\ Len(aws.ReplicationInstances) = 1

\* the identifiers of the active subnets of the group just processed
GroupSubnetIds ==
    LET Subnets == IF RdsProcessed THEN aws.DBInstances[1].DBSubnetGroup.Subnets
                   ELSE aws.ReplicationInstances[1].ReplicationSubnetGroup.Subnets
    IN  {Subnets[k].SubnetIdentifier :
            k \in {n \in 1..Len(Subnets) : Subnets[n].SubnetStatus = "Active"}}

\* the route table that the subnet uses in the account as it is now: the one
\* associated with it, or else the main one of the VPC
TableIdOf(vpc_id, subnet_id) ==
    LET explicit == {k \in 1..Len(aws.RouteTables) :
                        \E a \in 1..Len(aws.RouteTables[k].Associations) :
                            /\ "SubnetId" \in DOMAIN aws.RouteTables[k].Associations[a]
                            /\ aws.RouteTables[k].Associations[a].SubnetId = subnet_id}
        mains == {k \in 1..Len(aws.RouteTables) :
                        /\ aws.RouteTables[k].VpcId = vpc_id
                        /\ \E a \in 1..Len(aws.RouteTables[k].Associations) :
                            aws.RouteTables[k].Associations[a].Main}
    IN  aws.RouteTables[CHOOSE k \in (IF explicit # {} THEN explicit ELSE mains) : TRUE]
            .RouteTableId

\* the NACLs of the account, as it is now, associated with one of the subnets
NaclsOf(subnet_ids) ==
    {k \in 1..Len(aws.NetworkAcls) :
        \E a \in 1..Len(aws.NetworkAcls[k].Associations) :
            aws.NetworkAcls[k].Associations[a].SubnetId \in subnet_ids}

\* the subnets of the account that contain the address
SubnetsContaining(ip) ==
    {AccountSubnets[k].SubnetId :
        k \in {n \in 1..Len(AccountSubnets) : Covers(AccountSubnets[n].CidrBlock, ip)}}

----------------------------------------------------------------------------
(* C16: when the subnets of an RDS or DMS subnet group use more than one    *)
(* route table or more than one NACL, the subnet-group check prints a       *)
(* warning and nothing else: it returns "no problem", the overall problem   *)
(* flag is still false when the analyses begin and is, at the end, the OR   *)
(* of the three analyses; the analyses then use the route table and the     *)
(* NACL of the one subnet that contains the source IP.                      *)
C16_SubnetGroupDivergence ==
    /\ RdsProcessed =>
        /\ Printed(main, NotSameRouteTable)
            = (Cardinality({TableIdOf(main.source_vpc_id[1], s) : s \in GroupSubnetIds}) > 1)
        /\ Printed(main, NotSameNacl) = (Cardinality(NaclsOf(GroupSubnetIds)) > 1)
    /\ (RdsProcessed \/ DmsProcessed) =>
        /\ main.problem = Some(FALSE)
        /\ main.source_subnet_id[1] \in GroupSubnetIds
    /\ pc \in {"ec2", "rds", "dms", "common", "security_groups"} =>
        ~main.network_problem_exists
    /\ Completed =>
        main.network_problem_exists = (\E k \in 1..3 : reports[k].result.value)
    /\ (main.exc = "" /\ main.source_subnet_id # None) =>
        main.source_subnet_id[1] \in SubnetsContaining(main.source_ip_address[1])
    /\ (LastReport("report_route_table") /\ main.source_route_table # None) =>
        main.source_route_table[1].RouteTableId
            = TableIdOf(main.source_vpc_id[1], main.source_subnet_id[1])
    /\ (LastReport("report_nacl") /\ main.source_nacl # None) =>
        /\ Cardinality(NaclsOf({main.source_subnet_id[1]})) = 1
        /\ \A k \in NaclsOf({main.source_subnet_id[1]}) :
            main.source_nacl[1] = aws.NetworkAcls[k]

\* a completed run on an RDS source whose subnets use two route tables and
\* two NACLs: both warnings, and no problem at the end
C16_Witness ==
    /\ Completed
    /\ main.source_rds_name # ""
    /\ Printed(main, NotSameRouteTable)
    /\ Printed(main, NotSameNacl)
    /\ ~main.network_problem_exists

----------------------------------------------------------------------------
(* C17, as claimed: a run either reaches the final summary or stops early   *)
(* because an address or CIDR failed to parse (ValueError) or a cardinality *)
(* check on the snapshot failed (AssertionError), and for no other reason;  *)
(* a run that stops early prints no summary.                                *)
C17_AsClaimed ==
    /\ pc = "raised" =>
        /\ main.exc \in {"ValueError", "AssertionError"}
        /\ ~Printed(main, SummaryError)
        /\ ~Printed(main, SummaryOk)
    /\ pc = "done" => main.exc = ""

----------------------------------------------------------------------------
(* Two runs of main against one account *)

\* the second run has ended, with the summary or with an exception
SecondRunEnded == call.run = 2 /\ pc \in {"done", "raised"}

\* the first run, as it ended
FirstRun == ret[1]

----------------------------------------------------------------------------
(* C18: a second run on the same arguments against the same account ends as *)
(* the first did: it prints the same lines, makes the same reports with the *)
(* same results, sets the same overall problem flag (every local of main    *)
(* ends with the same value) and ends the same way, with the summary or     *)
(* with the same exception; nothing of the first run is left to it.         *)
C18_SecondRunIsTheSame ==
    /\ (pc = "ec2" /\ call.run = 2) => main = main_start(call.args)
    /\ (SecondRunEnded /\ call.args = FirstRun.args) =>
        /\ pc = FirstRun.pc
        /\ reports = FirstRun.reports
        /\ main.out = FirstRun.main.out
        /\ main.network_problem_exists = FirstRun.main.network_problem_exists
        /\ main = FirstRun.main

\* two completed runs on an EC2 and a DMS source that report a problem
C18_Witness ==
    /\ SecondRunEnded
    /\ call.args = FirstRun.args
    /\ pc = "done"
    /\ Len(main.source_security_group_ids) = 2
    /\ Len(reports) = 3
    /\ reports[2].result.value = TRUE
    /\ main.network_problem_exists
    /\ FirstRun.main.network_problem_exists

----------------------------------------------------------------------------
(* The verbose option *)

\* the lines that only a verbose run prints
VerboseLines == {"Considering route", "Route matched"}

\* what a run prints whatever verbose is
Quiet(out) == SelectSeq(out, LAMBDA line : line \notin VerboseLines)

\* the second run was on the arguments of the first but for verbose
OtherVerbose ==
    /\ call.args.verbose # FirstRun.args.verbose
    /\ [call.args EXCEPT !.verbose = FirstRun.args.verbose] = FirstRun.args

\* what a report of a run found and printed, the verbose lines left aside
Found(report) ==
    [fn |-> report.fn, value |-> report.result.value, exc |-> report.result.exc,
     out |-> Quiet(report.result.out)]

----------------------------------------------------------------------------
(* C19: verbose does not change the outcome. Of two runs against the same  *)
(* account on the same source and destination, one verbose and one not,   *)
(* both end the same way (the summary, or the same exception), make the   *)
(* same reports with the same problem values, use the same route table    *)
(* and select the same route of it, use the same NACL, find the same      *)
(* security-group matches, set the same overall problem flag, and print   *)
(* the same lines but for the verbose ones.                               *)
C19_VerboseSameOutcome ==
    (SecondRunEnded /\ OtherVerbose) =>
        /\ pc = FirstRun.pc
        /\ main.exc = FirstRun.main.exc
        /\ Len(reports) = Len(FirstRun.reports)
        /\ \A i \in 1..Len(reports) : Found(reports[i]) = Found(FirstRun.reports[i])
        /\ main.network_problem_exists = FirstRun.main.network_problem_exists
        /\ main.source_security_group_ids = FirstRun.main.source_security_group_ids
        /\ main.source_route_table = FirstRun.main.source_route_table
        /\ main.source_nacl = FirstRun.main.source_nacl
        /\ Quiet(main.out) = Quiet(FirstRun.main.out)
        /\ route_found(main, main.source_route_table).value
            = route_found(FirstRun.main, FirstRun.main.source_route_table).value
        /\ Len(reports) >= 1 =>
            get_security_groups(aws.SecurityGroups, main.source_security_group_ids,
                                main.dest_ip_address, TRUE).value
            = get_security_groups(aws.SecurityGroups, main.source_security_group_ids,
                                  main.dest_ip_address, FALSE).value

\* a quiet and a verbose run that end with the summary, where the longer of
\* two matching routes is the second of the table and a problem is reported
C19_Witness ==
    /\ SecondRunEnded
    /\ OtherVerbose
    /\ pc = "done"
    /\ main.verbose
    /\ main.source_route_table # None
    /\ Len(main.source_route_table[1].Routes) = 2
    /\ route_found(main, main.source_route_table).value = Some(main.source_route_table[1].Routes[2])
    /\ Cardinality(Containing(main.source_route_table[1].Routes, main.dest_ip_address)) = 2
    /\ reports[2].result.out # FirstRun.reports[2].result.out
    /\ main.network_problem_exists

----------------------------------------------------------------------------
(* Several sources in one run *)

\* the source steps of a run have ended without an exception
SourcesProcessed ==
    /\ pc \in {"common", "security_groups", "route_table", "nacl", "summary", "done"}
    /\ main.exc = ""

\* the source was asked for and the account has it
Ec2Found == main.source_ec2_ip_address # NoAddress /\ aws.Reservations # <<>>
RdsFound == main.source_rds_name # "" /\ aws.DBInstances # <<>>
DmsFound == main.source_dms_name # "" /\ aws.ReplicationInstances # <<>>

\* the groups of each source of the account, empty if it was not processed
Ec2GroupIds ==
    IF Ec2Found
    THEN LET groups == aws.Reservations[1].Instances[1].SecurityGroups
         IN  [k \in 1..Len(groups) |-> groups[k].GroupId]
    ELSE <<>>
RdsGroupIds ==
    IF RdsFound
    THEN LET groups == aws.DBInstances[1].VpcSecurityGroups
         IN  [k \in 1..Len(groups) |-> groups[k].VpcSecurityGroupId]
    ELSE <<>>
DmsGroupIds ==
    IF DmsFound
    THEN LET groups == aws.ReplicationInstances[1].VpcSecurityGroups
         IN  [k \in 1..Len(groups) |-> groups[k].VpcSecurityGroupId]
    ELSE <<>>

\* the identifiers of the active subnets of a subnet group
ActiveSubnetIds(Subnets) ==
    {Subnets[k].SubnetIdentifier :
        k \in {n \in 1..Len(Subnets) : Subnets[n].SubnetStatus = "Active"}}

\* address, VPC and subnets of the source that is the last in the order EC2,
\* RDS, DMS among those processed
LastSource ==
    IF DmsFound
    THEN [ip |-> aws.ReplicationInstances[1].ReplicationInstancePrivateIpAddress,
          vpc |-> aws.ReplicationInstances[1].ReplicationSubnetGroup.VpcId,
          subnets |-> ActiveSubnetIds(aws.ReplicationInstances[1].ReplicationSubnetGroup.Subnets)]
    ELSE IF RdsFound
    THEN [ip |-> aws.hostbyname[1],
          vpc |-> aws.DBInstances[1].DBSubnetGroup.VpcId,
          subnets |-> ActiveSubnetIds(aws.DBInstances[1].DBSubnetGroup.Subnets)]
    ELSE [ip |-> aws.Reservations[1].Instances[1].PrivateIpAddress,
          vpc |-> aws.Reservations[1].Instances[1].VpcId,
          subnets |-> {aws.Reservations[1].Instances[1].SubnetId}]

\* the one subnet of the last source that holds its address
LastSubnetId == CHOOSE id \in LastSource.subnets \cap SubnetsContaining(LastSource.ip) : TRUE

----------------------------------------------------------------------------
(* C20: when several of the sources (EC2 private IP, RDS name, DMS name)    *)
(* are given and found, they are processed in the order EC2, RDS, DMS: the  *)
(* source IP, VPC and subnet are those of the last one processed, the route *)
(* table and the NACL analysed are those of that subnet, and the security   *)
(* groups analysed are those of every source processed, concatenated in     *)
(* that order.                                                              *)
C20_LastSourceAllGroups ==
    SourcesProcessed =>
        /\ main.source_security_group_ids = Ec2GroupIds \o RdsGroupIds \o DmsGroupIds
        /\ (Ec2Found \/ RdsFound \/ DmsFound) =>
            /\ main.source_ip_address = Some(LastSource.ip)
            /\ main.source_vpc_id = Some(LastSource.vpc)
            /\ main.source_subnet_id = Some(LastSubnetId)
            /\ Len(reports) >= 1 =>
                reports[1].result =
                    report_security_groups(
                        describe_security_groups(aws, Ec2GroupIds \o RdsGroupIds \o DmsGroupIds).value,
                        Ec2GroupIds \o RdsGroupIds \o DmsGroupIds, LastSource.ip,
                        main.dest_ip_address, main.verbose)
            /\ Len(reports) >= 2 =>
                main.source_route_table[1].RouteTableId = TableIdOf(LastSource.vpc, LastSubnetId)
            /\ Len(reports) >= 3 =>
                \E k \in NaclsOf({LastSubnetId}) : main.source_nacl = Some(aws.NetworkAcls[k])

\* a run on an EC2 instance, a database and a replication instance that ends
\* with the summary: three groups are analysed, and the route table is the
\* main one of the replication instance's VPC although the subnet of the EC2
\* instance has a table of its own
C20_Witness ==
    /\ pc = "done"
    /\ Ec2Found /\ RdsFound /\ DmsFound
    /\ main.source_security_group_ids = <<"sg-1", "sg-2", "sg-3">>
    /\ main.source_subnet_id = Some("subnet-3")
    /\ main.source_route_table[1].RouteTableId = "rtb-2"
    /\ \E k \in 1..Len(aws.RouteTables) : aws.RouteTables[k].RouteTableId = "rtb-3"
    /\ Len(reports) = 3

----------------------------------------------------------------------------
(* The route-table lookups *)

\* the tables of the account associated with the subnet
ExplicitTables(subnet_id) ==
    {k \in 1..Len(aws.RouteTables) :
        \E a \in 1..Len(aws.RouteTables[k].Associations) :
            /\ "SubnetId" \in DOMAIN aws.RouteTables[k].Associations[a]
            /\ aws.RouteTables[k].Associations[a].SubnetId = subnet_id}

\* the main tables of the VPC in the account
MainTables(vpc_id) ==
    {k \in 1..Len(aws.RouteTables) :
        /\ aws.RouteTables[k].VpcId = vpc_id
        /\ \E a \in 1..Len(aws.RouteTables[k].Associations) :
            aws.RouteTables[k].Associations[a].Main}

\* one table is associated with the subnet, or none is and the VPC has one
\* main table
HasOneTable(vpc_id, subnet_id) ==
    \/ Cardinality(ExplicitTables(subnet_id)) = 1
    \/ ExplicitTables(subnet_id) = {} /\ Cardinality(MainTables(vpc_id)) = 1

\* that table
TheTableOf(vpc_id, subnet_id) ==
    aws.RouteTables[CHOOSE k \in (IF ExplicitTables(subnet_id) # {}
                                  THEN ExplicitTables(subnet_id) ELSE MainTables(vpc_id)) : TRUE]

\* a lookup has ended, with a value or with an exception
LookupEnded(fn) == pc = "return" /\ call.fn = fn

----------------------------------------------------------------------------
(* C21: get_route_table_for_subnet returns the one table associated with    *)
(* the subnet, whatever the main tables are; when no table is associated    *)
(* with it, the one main table of the VPC; with several tables associated,  *)
(* or with none associated and no or several main tables, it ends with an   *)
(* AssertionError and returns nothing. get_route_tables_for_subnets returns *)
(* the tables of the given subnets, each identifier once, and ends with the *)
(* AssertionError of the first subnet whose lookup does.                    *)
C21_RouteTableLookups ==
    /\ LookupEnded("get_route_table_for_subnet") =>
        IF HasOneTable(call.args.vpc_id, call.args.subnet_id)
        THEN /\ ret[1].exc = ""
             /\ ret[1].value = TheTableOf(call.args.vpc_id, call.args.subnet_id)
        ELSE /\ ret[1].exc = "AssertionError"
             /\ ret[1].value = None
    /\ LookupEnded("get_route_tables_for_subnets") =>
        LET ids == call.args.list_subnet_ids
        IN  IF \A i \in 1..Len(ids) : HasOneTable(call.args.vpc_id, ids[i])
            THEN /\ ret[1].exc = ""
                 /\ \A j, k \in 1..Len(ret[1].value) :
                        ret[1].value[j].RouteTableId = ret[1].value[k].RouteTableId => j = k
                 /\ {ret[1].value[k] : k \in 1..Len(ret[1].value)}
                        = {TheTableOf(call.args.vpc_id, ids[i]) : i \in 1..Len(ids)}
            ELSE /\ ret[1].exc = "AssertionError"
                 /\ ret[1].value = None

\* three subnets are looked up, two of them on one shared table and the third
\* on the main table of the VPC; two tables are returned
C21_Witness ==
    /\ LookupEnded("get_route_tables_for_subnets")
    /\ ret[1].exc = ""
    /\ Len(call.args.list_subnet_ids) = 3
    /\ {call.args.list_subnet_ids[i] : i \in 1..3} = SubnetIds
    /\ ExplicitTables("subnet-1") = ExplicitTables("subnet-2")
    /\ Cardinality(ExplicitTables("subnet-1")) = 1
    /\ Len(ret[1].value) = 2

====
